---- MODULE Spec2Model ----
(***************************************************************************)
(* SUC route viewer: the App component (event / route selection, playback  *)
(* loop) and the MultiRouteMap component (map lifecycle, overlay           *)
(* reconciliation, live GPS, playback dot) as one state machine.           *)
(*                                                                         *)
(* React is modelled as follows.  A handler that runs in a discrete DOM    *)
(* event (click, select change) updates state, renders, commits and runs   *)
(* its passive effects in one step.  An update made outside a discrete     *)
(* event (a requestAnimationFrame callback, the continuation of the        *)
(* catalog fetch) renders and commits in the same step, but its passive    *)
(* effects (useEffect clean-ups and bodies) run later, in a step of their  *)
(* own (FlushPassiveEffects); React runs them at the latest before the     *)
(* next render.  Frame callbacks, style-data events and position fixes     *)
(* may arrive in between.                                                  *)
(*                                                                         *)
(* Numbers: playbackProgress is kept in units of 1/ProgressOne, frame      *)
(* timestamps lie on a grid of FrameGridSeconds, so that dt / duration is  *)
(* an exact integer number of progress units for every route and speed of  *)
(* the catalog below.                                                      *)
(***************************************************************************)
EXTENDS Integers, Sequences, FiniteSets, TLC

\* ---------------------------------------------------------------------
\* Scales and bounds
\* ---------------------------------------------------------------------

\* playbackProgress = 1.0 in model units
ProgressOne == 4

\* distance between two grid points of the frame timestamps, in seconds
FrameGridSeconds == 60

\* largest gap, in grid points, between two consecutive frame timestamps
MaxDt == 1

\* largest amount, in grid points, by which the first frame timestamp of a
\* loop may lie before the performance.now() the loop recorded
MaxSkew == 1

\* progress values below -MaxUnder are not explored
MaxUnder == 2

\* ---------------------------------------------------------------------
\* Route catalog (what loadSUCEvents resolves to)
\* ---------------------------------------------------------------------

Null == "null"

LineString(cs) == [type |-> "LineString", coordinates |-> cs]

MultiLineString(ls) == [type |-> "MultiLineString", coordinates |-> ls]

PointFeature(c) == [type |-> "Point", coordinates |-> c]

NullRoute ==
  [id |-> Null, label |-> Null, distanceMi |-> 0, hasGeojson |-> FALSE,
   features |-> <<>>, distanceSeries |-> <<>>, elevationSeries |-> <<>>]

R31 ==
  [id |-> "r31", label |-> "XL", distanceMi |-> 10, hasGeojson |-> TRUE,
   features |-> << LineString(<< <<0, 0>>, <<0, 8>> >>),
                   PointFeature(<<0, 4>>) >>,
   distanceSeries |-> <<0, 4, 8>>, elevationSeries |-> <<0, 10, 20>>]

R32 ==
  [id |-> "r32", label |-> "XXL", distanceMi |-> 20, hasGeojson |-> TRUE,
   features |-> << MultiLineString(<< << <<0, 0>>, <<4, 0>> >>,
                                      << <<4, 4>>, <<8, 4>> >> >>) >>,
   distanceSeries |-> <<0, 4>>, elevationSeries |-> <<0>>]

\* a route whose stats file has no distance and whose geojson failed to load
R21 ==
  [id |-> "r21", label |-> "MED", distanceMi |-> 0, hasGeojson |-> FALSE,
   features |-> <<>>, distanceSeries |-> <<>>, elevationSeries |-> <<>>]

\* a route whose geojson holds a point of interest and no track
R24 ==
  [id |-> "r24", label |-> "SM", distanceMi |-> 5, hasGeojson |-> TRUE,
   features |-> << PointFeature(<<16, 4>>) >>,
   distanceSeries |-> <<>>, elevationSeries |-> <<>>]

\* a route whose track is a single vertex
R23 ==
  [id |-> "r23", label |-> "XXL", distanceMi |-> 10, hasGeojson |-> TRUE,
   features |-> << LineString(<< <<16, 0>> >>) >>,
   distanceSeries |-> <<0>>, elevationSeries |-> <<0>>]

R22 ==
  [id |-> "r22", label |-> "LRG", distanceMi |-> 20, hasGeojson |-> TRUE,
   features |-> << LineString(<< <<8, 8>>, <<12, 8>>, <<12, 16>> >>) >>,
   distanceSeries |-> <<0, 8>>, elevationSeries |-> <<4, 0>>]

NullEvent == [eventId |-> Null, routes |-> <<>>]

\* newest first; routes of an event sorted by ascending distance
LoadedEvents ==
  << [eventId |-> "e3", routes |-> <<R31, R32>>],
     [eventId |-> "e2", routes |-> <<R21, R24, R23, R22>>],
     [eventId |-> "e1", routes |-> <<>>] >>

AllRoutes == {R31, R32, R21, R24, R23, R22}

RouteById(id) ==
  IF \E r \in AllRoutes : r.id = id
    THEN CHOOSE r \in AllRoutes : r.id = id
    ELSE NullRoute

EventIds == {LoadedEvents[i].eventId : i \in 1..Len(LoadedEvents)}

Speeds == {"slow", "med", "fast"}

\* ---------------------------------------------------------------------
\* App: pure helpers
\* ---------------------------------------------------------------------

\* index of the first TRUE of the sequence hits from i on, 0 if none
RECURSIVE FindFrom(_, _)
FindFrom(hits, i) ==
  IF i > Len(hits) THEN 0
  ELSE IF hits[i] THEN i
  ELSE FindFrom(hits, i + 1)

\* index of the first element that satisfies the predicate of Array.find,
\* given as the sequence of the predicate's values; 0 if none
FindIndex(hits) == FindFrom(hits, 1)

RECURSIVE ReduceLongest(_, _, _)
ReduceLongest(routes, i, best) ==
  IF i > Len(routes) THEN best
  ELSE ReduceLongest(routes, i + 1,
         IF routes[i].distanceMi > best.distanceMi THEN routes[i] ELSE best)

IsXL(r) == r.label = "XL"

\* fault: the default is always the first route of the event
pickDefaultRoute_First(event) ==
  IF event = NullEvent \/ Len(event.routes) = 0 THEN NullRoute
  ELSE event.routes[1]

pickDefaultRoute(event) ==
  IF event = NullEvent \/ Len(event.routes) = 0 THEN NullRoute
  ELSE LET xl == FindIndex([i \in 1..Len(event.routes) |-> IsXL(event.routes[i])])
       IN  IF xl # 0 THEN event.routes[xl]
           ELSE ReduceLongest(event.routes, 2, event.routes[1])

EventById(evs, eventId) ==
  LET i == FindIndex([k \in 1..Len(evs) |-> evs[k].eventId = eventId])
  IN  IF i = 0 THEN NullEvent ELSE evs[i]

activeEvent(s) ==
  IF Len(s.events) = 0 THEN NullEvent
  ELSE LET ev == EventById(s.events, s.activeEventId)
       IN  IF ev # NullEvent THEN ev ELSE s.events[1]

\* fault: the route is looked up by id in the whole catalog
selectedRoute_Global(s) ==
  IF activeEvent(s) = NullEvent THEN NullRoute ELSE RouteById(s.selectedRouteId)

selectedRoute(s) ==
  LET ev == activeEvent(s)
      i == FindIndex([k \in 1..Len(ev.routes) |->
                        ev.routes[k].id = s.selectedRouteId])
  IN  IF ev = NullEvent THEN NullRoute
      ELSE IF i # 0 THEN ev.routes[i]
      ELSE IF Len(ev.routes) > 0 THEN ev.routes[1]
      ELSE NullRoute

baseDurationSeconds == 60

\* fault: the speed setting does not change the duration
speedMult4_Same(playbackSpeed) == 4

\* 4 * speedMult, to stay in the integers (slow 2, med 1, fast 0.25)
speedMult4(playbackSpeed) ==
  IF playbackSpeed = "slow" THEN 8
  ELSE IF playbackSpeed = "fast" THEN 1
  ELSE 4

\* selectedRoute.distanceMi || 1
routeDistance(route) == IF route.distanceMi = 0 THEN 1 ELSE route.distanceMi

\* 40 * duration, duration = baseDurationSeconds * (routeDistance / 10) * speedMult
duration40(route, playbackSpeed) ==
  baseDurationSeconds * routeDistance(route) * speedMult4(playbackSpeed)

\* delta = dt / duration in progress units, dt in grid points
delta(dt, route, playbackSpeed) ==
  (dt * FrameGridSeconds * 40 * ProgressOne) \div duration40(route, playbackSpeed)

\* thinCoordinates(coords, step): every step-th vertex plus the last one
RECURSIVE EveryNth(_, _, _)
EveryNth(coords, step, i) ==
  IF i > Len(coords) THEN <<>>
  ELSE <<coords[i]>> \o EveryNth(coords, step, i + step)

\* fault: the final vertex is not added
thinCoordinates_NoLast(coords, step) ==
  IF Len(coords) <= step THEN coords ELSE EveryNth(coords, step, 1)

\* result[result.length - 1] !== last compares two array objects: it is false
\* only when the loop itself kept the final vertex, whatever the values are
thinCoordinates(coords, step) ==
  IF Len(coords) <= step THEN coords
  ELSE IF (Len(coords) - 1) % step # 0
    THEN Append(EveryNth(coords, step, 1), coords[Len(coords)])
    ELSE EveryNth(coords, step, 1)

RECURSIVE Concat(_, _)
Concat(seqs, i) ==
  IF i > Len(seqs) THEN <<>> ELSE seqs[i] \o Concat(seqs, i + 1)

\* useMemo permanentRoutesGeoJson: every LineString feature of every route of
\* every event, thinned, tagged with its event and route; <<>> stands for null
permanentRoutesGeoJson(evs) ==
  LET OfFeature(ev, route, f) ==
        IF f.type = "LineString"
          THEN << [eventId |-> ev.eventId, routeId |-> route.id,
                   coordinates |-> thinCoordinates(f.coordinates, 5)] >>
          ELSE <<>>
      OfRoute(ev, route) ==
        IF ~route.hasGeojson THEN <<>>
        ELSE Concat([k \in 1..Len(route.features) |->
                       OfFeature(ev, route, route.features[k])], 1)
      OfEvent(ev) ==
        Concat([k \in 1..Len(ev.routes) |-> OfRoute(ev, ev.routes[k])], 1)
  IN  Concat([k \in 1..Len(evs) |-> OfEvent(evs[k])], 1)

\* ---------------------------------------------------------------------
\* MultiRouteMap: ids and the map surface
\* ---------------------------------------------------------------------

ID ==
  [permanentSrc |-> "suc-permanent-routes-source",
   permanentLayer |-> "suc-permanent-routes-layer",
   baseSrc |-> "routes-base", baseLayer |-> "routes-base-line",
   selectedSrc |-> "route-selected", selectedGlow |-> "route-glow",
   selectedLine |-> "route-line",
   poiSrc |-> "route-poi", poiLayer |-> "route-poi-layer",
   gpsSrc |-> "user-location", gpsLayer |-> "user-location-layer",
   playbackSrc |-> "route-playback", playbackLayer |-> "route-playback-layer"]

SourceIds ==
  {ID.permanentSrc, ID.baseSrc, ID.selectedSrc, ID.poiSrc, ID.gpsSrc,
   ID.playbackSrc}

NoCamera == [op |-> "none", box |-> <<0, 0, 0, 0>>]

\* a freshly constructed component instance: refs at their initial values,
\* no effect has run yet; the history flags are carried over
NewInstance(key, flags) ==
  [key |-> key, mounted |-> FALSE,
   mapRef |-> 0, styleLoaded |-> FALSE,
   layers |-> <<>>, sources |-> {}, data |-> [id \in SourceIds |-> <<>>],
   handlers |-> <<>>, camera |-> NoCamera,
   gpsWatchIdRef |-> 0, playbackCoordsRef |-> <<>>,
   deps |-> [ghost |-> <<>>, refresh |-> <<>>, gps |-> <<>>, dot |-> <<>>],
   gpsCleanup |-> "none",
   flags |-> flags]

\* history of one step: unready, a style mutation while the style was not
\* loaded; dupAdd, an add of an id already present; staleRan, a deferred
\* callback of a cleaned-up effect run ran; dupCreate, a map constructed
\* while another existed; doubleRemove, a removed map removed again;
\* dotMoved, the playback dot effect interpolated a position and moved the
\* camera to it; removed, the ids removed from the map; churn, an id removed
\* in the step was added again; fits, the number of fitBounds calls; orphan,
\* a layer added without its source or a source removed under a layer
NoFlags ==
  [unready |-> FALSE, dupAdd |-> FALSE, staleRan |-> FALSE,
   dupCreate |-> FALSE, doubleRemove |-> FALSE,
   dotMoved |-> FALSE, churn |-> FALSE, removed |-> {}, fits |-> 0,
   orphan |-> FALSE]

getLayer(mm, id) == \E i \in 1..Len(mm.layers) : mm.layers[i] = id

getSource(mm, id) == id \in mm.sources

\* every mutation of the style notes whether the style was loaded
Mutate(mm) == [mm EXCEPT !.flags.unready = @ \/ ~mm.styleLoaded]

\* the source option of the addLayer call of each layer
SourceOfLayer(id) ==
  IF id = ID.permanentLayer THEN ID.permanentSrc
  ELSE IF id = ID.baseLayer THEN ID.baseSrc
  ELSE IF id \in {ID.selectedGlow, ID.selectedLine} THEN ID.selectedSrc
  ELSE IF id = ID.poiLayer THEN ID.poiSrc
  ELSE IF id = ID.gpsLayer THEN ID.gpsSrc
  ELSE ID.playbackSrc

addSource(mm, id, d) ==
  [Mutate(mm) EXCEPT !.flags.dupAdd = @ \/ getSource(mm, id),
                     !.flags.churn = @ \/ id \in mm.flags.removed,
                     !.sources = @ \cup {id},
                     !.data[id] = d]

addLayer(mm, id) ==
  [Mutate(mm) EXCEPT !.flags.dupAdd = @ \/ getLayer(mm, id),
                     !.flags.churn = @ \/ id \in mm.flags.removed,
                     !.flags.orphan = @ \/ ~getSource(mm, SourceOfLayer(id)),
                     !.layers = IF getLayer(mm, id) THEN @ ELSE Append(@, id)]

removeLayer(mm, id) ==
  LET Keep(l) == l # id
  IN  [Mutate(mm) EXCEPT !.layers = SelectSeq(@, Keep),
                         !.flags.removed = @ \cup {id}]

removeSource(mm, id) ==
  [Mutate(mm) EXCEPT !.sources = @ \ {id}, !.data[id] = <<>>,
                     !.flags.orphan =
                       @ \/ \E i \in 1..Len(mm.layers) :
                              SourceOfLayer(mm.layers[i]) = id,
                     !.flags.removed = @ \cup {id}]

setData(mm, id, d) == [Mutate(mm) EXCEPT !.data[id] = d]

removeLayerIfPresent(mm, id) ==
  IF getLayer(mm, id) THEN removeLayer(mm, id) ELSE mm

removeSourceIfPresent(mm, id) ==
  IF getSource(mm, id) THEN removeSource(mm, id) ELSE mm

setGeoJsonSource(mm, sourceId, d) ==
  IF getSource(mm, sourceId) THEN setData(mm, sourceId, d)
  ELSE addSource(mm, sourceId, d)

SetMin(S) == CHOOSE x \in S : \A y \in S : x <= y

SetMax(S) == CHOOSE x \in S : \A y \in S : x >= y

\* LngLatBounds extended by every vertex of coords (coords non-empty)
BoundsOf(coords) ==
  LET lngs == {coords[i][1] : i \in 1..Len(coords)}
      lats == {coords[i][2] : i \in 1..Len(coords)}
  IN  <<SetMin(lngs), SetMin(lats), SetMax(lngs), SetMax(lats)>>

fitBounds(mm, box) ==
  [mm EXCEPT !.camera = [op |-> "fitBounds", box |-> box],
             !.flags.fits = @ + 1]

easeTo(mm, c) ==
  [mm EXCEPT !.camera = [op |-> "easeTo", box |-> <<c[1], c[2], c[1], c[2]>>]]

addLayerIfMissing(mm, id) == IF ~getLayer(mm, id) THEN addLayer(mm, id) ELSE mm

\* ---------------------------------------------------------------------
\* MultiRouteMap: callbacks handed to withStyleLoaded
\*
\* A registration is a record of what the callback's closure captured:
\* kind (which effect registered it), event and route (ids of the props of
\* that render), loaded (whether permanentRoutesGeoJson came from a loaded
\* catalog) and torn (history: the effect run that registered it has been
\* cleaned up since).
\* ---------------------------------------------------------------------

Registration(kind, s) ==
  [kind |-> kind, event |-> activeEvent(s).eventId,
   route |-> selectedRoute(s).id, loaded |-> Len(s.events) > 0,
   torn |-> FALSE]

\* dataToUse of the ghost callback: all routes except those of the active event
GhostFilter(perm, eventId) ==
  LET NotActive(f) == f.eventId # eventId
  IN  IF eventId # Null THEN SelectSeq(perm, NotActive) ELSE perm

GhostData(h) ==
  GhostFilter(permanentRoutesGeoJson(IF h.loaded THEN LoadedEvents ELSE <<>>),
              h.event)

\* fault: an empty ghost set leaves the layer and the source as they are
GhostDraw_KeepsEmpty(mm, dataToUse) ==
  IF Len(dataToUse) = 0
    THEN mm
    ELSE addLayerIfMissing(setGeoJsonSource(mm, ID.permanentSrc, dataToUse),
                           ID.permanentLayer)

GhostDraw(mm, dataToUse) ==
  IF Len(dataToUse) = 0
    THEN removeSourceIfPresent(
           removeLayerIfPresent(mm, ID.permanentLayer), ID.permanentSrc)
    ELSE addLayerIfMissing(setGeoJsonSource(mm, ID.permanentSrc, dataToUse),
                           ID.permanentLayer)

\* the permanent ghost layer
ghostCallback(mm, h) == GhostDraw(mm, GhostData(h))

\* vertices of a line feature, flattened
LineCoords(f) ==
  IF f.type = "LineString" THEN f.coordinates
  ELSE IF f.type = "MultiLineString" THEN Concat(f.coordinates, 1)
  ELSE <<>>

IsLine(f) == f.type = "LineString" \/ f.type = "MultiLineString"

IsPoi(f) == ~IsLine(f)

RouteFeatures(r) == IF r.hasGeojson THEN r.features ELSE <<>>

\* fault: the refresh pass skips the teardown of the previous selection
RefreshTeardown_Skip(mm) == [mm EXCEPT !.playbackCoordsRef = <<>>]

\* refresh pass: clear all route-specific layers and sources
RefreshTeardown(mm) ==
  [removeSourceIfPresent(removeSourceIfPresent(removeSourceIfPresent(
     removeSourceIfPresent(
       removeLayerIfPresent(removeLayerIfPresent(removeLayerIfPresent(
         removeLayerIfPresent(removeLayerIfPresent(mm,
           ID.baseLayer), ID.selectedGlow), ID.selectedLine),
           ID.poiLayer), ID.playbackLayer),
       ID.baseSrc), ID.selectedSrc), ID.poiSrc), ID.playbackSrc)
   EXCEPT !.playbackCoordsRef = <<>>]

\* refresh pass 1: base underlay, all routes of the event
RefreshBase(mm, baseFeatures) ==
  IF Len(baseFeatures) > 0
    THEN addLayer(addSource(mm, ID.baseSrc, baseFeatures), ID.baseLayer)
    ELSE mm

\* refresh pass 2: selected route highlight and POIs
RefreshSelected(mm, lineFeatures, poiFeatures) ==
  IF Len(poiFeatures) > 0
    THEN addLayer(addSource(
           addLayer(addLayer(addSource(mm, ID.selectedSrc, lineFeatures),
                             ID.selectedGlow), ID.selectedLine),
           ID.poiSrc, poiFeatures), ID.poiLayer)
    ELSE addLayer(addLayer(addSource(mm, ID.selectedSrc, lineFeatures),
                           ID.selectedGlow), ID.selectedLine)

\* fault: the cache keeps only the first two vertices of the route
RefreshPlayback_Truncated(mm, coords) ==
  addLayer(addSource(
    [(IF Len(coords) > 0 THEN fitBounds(mm, BoundsOf(coords)) ELSE mm)
       EXCEPT !.playbackCoordsRef =
                IF Len(coords) > 2 THEN SubSeq(coords, 1, 2) ELSE coords],
    ID.playbackSrc, <<>>), ID.playbackLayer)

\* refresh pass 3 to 5: fit the bounds, flatten the coordinates for playback,
\* seed the empty playback source
RefreshPlayback(mm, coords) ==
  addLayer(addSource(
    [(IF Len(coords) > 0 THEN fitBounds(mm, BoundsOf(coords)) ELSE mm)
       EXCEPT !.playbackCoordsRef = coords],
    ID.playbackSrc, <<>>), ID.playbackLayer)

\* fault: the selected route is drawn even when it has no line feature
RefreshLines_Always(mm, lineFeatures, poiFeatures) ==
  RefreshPlayback(RefreshSelected(mm, lineFeatures, poiFeatures),
                  Concat([k \in 1..Len(lineFeatures) |->
                            LineCoords(lineFeatures[k])], 1))

RefreshLines(mm, lineFeatures, poiFeatures) ==
  IF Len(lineFeatures) = 0 THEN mm
  ELSE RefreshPlayback(RefreshSelected(mm, lineFeatures, poiFeatures),
                       Concat([k \in 1..Len(lineFeatures) |->
                                 LineCoords(lineFeatures[k])], 1))

\* baseFeatures: the features of every route of the event
BaseFeatures(ev) ==
  Concat([k \in 1..Len(ev.routes) |-> RouteFeatures(ev.routes[k])], 1)

RefreshRoute(mm, route) ==
  IF route = NullRoute \/ ~route.hasGeojson THEN mm
  ELSE RefreshLines(mm, SelectSeq(route.features, IsLine),
                    SelectSeq(route.features, IsPoi))

\* base underlay + selected route + POIs + bounds, the single refresh pass
refreshCallback(mm, h) ==
  IF h.event = Null THEN RefreshTeardown(mm)
  ELSE RefreshRoute(
         RefreshBase(RefreshTeardown(mm),
                     BaseFeatures(EventById(LoadedEvents, h.event))),
         RouteById(h.route))

\* fault: the source is removed while its layer stays
cleanupLayerAndSource_SourceOnly(mm) ==
  IF mm.mapRef = 0 THEN mm ELSE removeSourceIfPresent(mm, ID.gpsSrc)

cleanupLayerAndSource(mm) ==
  IF mm.mapRef = 0 THEN mm
  ELSE removeSourceIfPresent(removeLayerIfPresent(mm, ID.gpsLayer), ID.gpsSrc)

recenterOnSelectedRoute(mm, route) ==
  IF mm.mapRef = 0 \/ route = NullRoute \/ ~route.hasGeojson THEN mm
  ELSE IF Len(route.features) = 0 THEN mm
  ELSE IF route.features[1].type # "LineString" THEN mm
  ELSE IF Len(route.features[1].coordinates) = 0 THEN mm
  ELSE fitBounds(mm, BoundsOf(route.features[1].coordinates))

\* fault: the OFF callback recenters but leaves the user-location layer
gpsOffCallback_KeepLayer(mm, h) ==
  recenterOnSelectedRoute(mm, RouteById(h.route))

gpsOffCallback(mm, h) ==
  recenterOnSelectedRoute(cleanupLayerAndSource(mm), RouteById(h.route))

addSourceIfMissing(mm, id) ==
  IF ~getSource(mm, id) THEN addSource(mm, id, <<>>) ELSE mm

\* fault: the ON callback also takes the playback marker off the map
gpsOnCallback_DropsPlayback(mm, h) ==
  removeSourceIfPresent(removeLayerIfPresent(
    addLayerIfMissing(addSourceIfMissing(cleanupLayerAndSource(mm), ID.gpsSrc),
                      ID.gpsLayer),
    ID.playbackLayer), ID.playbackSrc)

\* fault: the ON callback keeps a user-location layer it finds on the map
gpsOnCallback_KeepsLayer(mm, h) ==
  addLayerIfMissing(addSourceIfMissing(mm, ID.gpsSrc), ID.gpsLayer)

gpsOnCallback(mm, h) ==
  addLayerIfMissing(addSourceIfMissing(cleanupLayerAndSource(mm), ID.gpsSrc),
                    ID.gpsLayer)

\* fault: fn runs at once, whether or not the style is loaded
withStyleLoaded_Now(mm, h, ran) == ran

\* run fn now when the style is loaded, else map.once("styledata", handler);
\* ran is what fn() makes of mm, h the record of the handler
withStyleLoaded(mm, h, ran) ==
  IF mm.styleLoaded THEN ran
  ELSE [mm EXCEPT !.handlers = Append(@, h)]

\* the function withStyleLoaded returns: map.off("styledata", handler)
CancelStyleLoaded(mm, kind) ==
  LET Others(h) == h.kind # kind
  IN  [mm EXCEPT !.handlers = SelectSeq(@, Others)]

\* ---------------------------------------------------------------------
\* MultiRouteMap: effects.  Each takes and returns the whole state record s;
\* the props of the render are read from s.
\* ---------------------------------------------------------------------

\* key={activeEvent?.eventId ?? "none"}
Key(s) == IF activeEvent(s) = NullEvent THEN "none" ELSE activeEvent(s).eventId

\* the div of the component is attached before its effects run
containerRef == TRUE

FreeId(used) == CHOOSE i \in 1..(Cardinality(used) + 1) : i \notin used

\* 1. initial map creation
CreateMapEffect(s) ==
  IF s.m.mapRef # 0 \/ ~containerRef THEN s
  ELSE [s EXCEPT !.m.flags.dupCreate = @ \/ s.maps # {},
                 !.maps = @ \cup {FreeId(s.maps)},
                 !.m.mapRef = FreeId(s.maps),
                 !.m.styleLoaded = FALSE]

\* fault: the clean-up drops the reference without map.remove()
CreateMapCleanup_Leak(s) == [s EXCEPT !.m.mapRef = 0]

\* the clean-up of effect 1: map.remove(); mapRef.current = null
CreateMapCleanup(s) ==
  IF ~s.m.mounted THEN s
  ELSE [s EXCEPT !.m.flags.doubleRemove = @ \/ s.m.mapRef \notin s.maps,
                 !.maps = @ \ {s.m.mapRef},
                 !.m.mapRef = 0]

\* 2. permanent ghost layer
GhostEffect(s) ==
  IF s.m.mapRef = 0 \/ Len(permanentRoutesGeoJson(s.events)) = 0
    THEN IF s.m.mapRef # 0
           THEN [s EXCEPT !.m = removeSourceIfPresent(
                   removeLayerIfPresent(@, ID.permanentLayer), ID.permanentSrc)]
           ELSE s
    ELSE [s EXCEPT !.m = withStyleLoaded(@, Registration("ghost", s),
                            ghostCallback(@, Registration("ghost", s)))]

\* 3. refresh pass
RefreshEffect(s) ==
  IF s.m.mapRef = 0 THEN s
  ELSE [s EXCEPT !.m = withStyleLoaded(@, Registration("refresh", s),
                          refreshCallback(@, Registration("refresh", s)))]

\* navigator.geolocation.clearWatch(gpsWatchIdRef.current)
clearWatch(s) ==
  [s EXCEPT !.watches = {w \in @ : w.id # s.m.gpsWatchIdRef},
            !.m.gpsWatchIdRef = 0]

ClearIfWatching(s) ==
  IF s.m.gpsWatchIdRef # 0 /\ s.geolocation THEN clearWatch(s) ELSE s

\* gpsWatchIdRef.current = navigator.geolocation.watchPosition(...)
watchPosition(s) ==
  [s EXCEPT !.watches = @ \cup {[id |-> FreeId({w.id : w \in s.watches}),
                                 live |-> TRUE]},
            !.m.gpsWatchIdRef = FreeId({w.id : w \in s.watches})]

\* 4. live GPS dot, turning OFF
GpsOff(s) ==
  [s EXCEPT !.m = [withStyleLoaded(@, Registration("gpsOff", s),
                        gpsOffCallback(@, Registration("gpsOff", s)))
                     EXCEPT !.gpsCleanup = "cancel"]]

\* fault: turning ON starts the watch and adds no marker
GpsOn_NoMarker(s) == watchPosition([s EXCEPT !.m.gpsCleanup = "clear"])

\* 4. live GPS dot, turning ON
GpsOn(s) ==
  watchPosition(
    [s EXCEPT !.m = [withStyleLoaded(@, Registration("gpsOn", s),
                          gpsOnCallback(@, Registration("gpsOn", s)))
                       EXCEPT !.gpsCleanup = "clear"]])

\* 4. live GPS dot
GpsEffect(s) ==
  IF s.m.mapRef = 0 THEN [s EXCEPT !.m.gpsCleanup = "none"]
  ELSE IF ~s.isLiveGpsOn THEN GpsOff(ClearIfWatching(s))
  ELSE IF ~s.geolocation THEN [s EXCEPT !.m.gpsCleanup = "none"]
  ELSE GpsOn(s)

\* history: the GPS-on registrations still pending belong to a cleaned-up run
TearGpsOn(hs) ==
  [i \in 1..Len(hs) |->
     IF hs[i].kind = "gpsOn" THEN [hs[i] EXCEPT !.torn = TRUE] ELSE hs[i]]

\* fault: the ON branch returns no clean-up, the watch is never cleared
GpsCleanup_NoClear(s) ==
  IF s.m.gpsCleanup = "cancel"
    THEN [s EXCEPT !.m = CancelStyleLoaded(@, "gpsOff")]
    ELSE s

\* what effect 4 returned: the cancel of the OFF branch, or the safety
\* clean-up of the ON branch (whose deferred callback stays registered)
GpsCleanup(s) ==
  IF s.m.gpsCleanup = "cancel"
    THEN [s EXCEPT !.m = CancelStyleLoaded(@, "gpsOff")]
  ELSE IF s.m.gpsCleanup = "clear"
    THEN [ClearIfWatching(s) EXCEPT !.m.handlers = TearGpsOn(@)]
  ELSE s

\* start + (end - start) * t
Lerp(start, end, tNum) == start + ((end - start) * tNum) \div ProgressOne

\* fault: the dot is put on the vertex after the one the index names
DotAt_NextVertex(coords, idx, tNum) ==
  coords[IF idx + 2 <= Len(coords) THEN idx + 2 ELSE Len(coords)]

\* the interpolated point on segment idx (0-based) of coords
DotAt(coords, idx, tNum) ==
  LET maxIndex == Len(coords) - 1
      start == coords[idx + 1]
      end == coords[(IF idx + 1 < maxIndex THEN idx + 1 ELSE maxIndex) + 1]
  IN  <<Lerp(start[1], end[1], tNum), Lerp(start[2], end[2], tNum)>>

\* src.setData(point); map.easeTo({center: point})
DotMove(mm, c) ==
  [easeTo(setData(mm, ID.playbackSrc, <<c>>), c) EXCEPT !.flags.dotMoved = TRUE]

\* playbackProgress * (total - 1), in units of 1/ProgressOne
Scaled(s) == s.playbackProgress * (Len(s.m.playbackCoordsRef) - 1)

\* fault: the dot effect does not look at the number of vertices
DotEffect_AnyLength(s) ==
  IF s.m.mapRef = 0 THEN s
  ELSE IF Len(s.m.playbackCoordsRef) < 1 THEN s
  ELSE IF ~getSource(s.m, ID.playbackSrc) THEN s
  ELSE IF ~s.isPlaybackOn
    THEN [s EXCEPT !.m = setData(@, ID.playbackSrc, <<@.playbackCoordsRef[1]>>)]
  ELSE IF Scaled(s) < 0 \/ Scaled(s) \div ProgressOne > Len(s.m.playbackCoordsRef) - 1
    THEN s
  ELSE [s EXCEPT !.m = DotMove(@, DotAt(@.playbackCoordsRef,
                                        Scaled(s) \div ProgressOne,
                                        Scaled(s) % ProgressOne))]

\* 5. playback dot along the selected route
DotEffect(s) ==
  IF s.m.mapRef = 0 THEN s
  ELSE IF Len(s.m.playbackCoordsRef) < 2 THEN s
  ELSE IF ~getSource(s.m, ID.playbackSrc) THEN s
  ELSE IF ~s.isPlaybackOn
    THEN [s EXCEPT !.m = setData(@, ID.playbackSrc, <<@.playbackCoordsRef[1]>>)]
  ELSE IF Scaled(s) < 0 \/ Scaled(s) \div ProgressOne > Len(s.m.playbackCoordsRef) - 1
    THEN s
  ELSE [s EXCEPT !.m = DotMove(@, DotAt(@.playbackCoordsRef,
                                        Scaled(s) \div ProgressOne,
                                        Scaled(s) % ProgressOne))]

\* the dependency arrays of effects 2 to 5 in the render s
Deps(s) ==
  [ghost |-> <<Len(s.events) > 0, activeEvent(s).eventId>>,
   refresh |-> <<activeEvent(s).eventId, selectedRoute(s).id>>,
   gps |-> <<s.isLiveGpsOn, selectedRoute(s).id>>,
   dot |-> <<selectedRoute(s).id, s.playbackProgress, s.isPlaybackOn>>]

\* a new component instance takes the place of the unmounted one
Remount(s) ==
  [s EXCEPT !.watches = {[w EXCEPT !.live = FALSE] : w \in @},
            !.m = NewInstance(Key(s), [s.m.flags EXCEPT !.removed = {}])]

\* fault: unmount runs every clean-up but the one of the live GPS effect
Unmount_KeepWatch(s) ==
  Remount(
    [CreateMapCleanup(s) EXCEPT !.m = CancelStyleLoaded(
                                        CancelStyleLoaded(@, "ghost"), "refresh")])

\* unmount: the clean-ups of the instance, in the order of its effects
Unmount(s) ==
  Remount(GpsCleanup(
    [CreateMapCleanup(s) EXCEPT !.m = CancelStyleLoaded(
                                        CancelStyleLoaded(@, "ghost"), "refresh")]))

\* clean-ups of the effects whose dependencies changed; was is the instance
\* before the commit, deps the dependency arrays of the render
CleanGhost(s, was, deps) ==
  IF was.mounted /\ was.deps.ghost # deps.ghost
    THEN [s EXCEPT !.m = CancelStyleLoaded(@, "ghost")] ELSE s

CleanRefresh(s, was, deps) ==
  IF was.mounted /\ was.deps.refresh # deps.refresh
    THEN [s EXCEPT !.m = CancelStyleLoaded(@, "refresh")] ELSE s

CleanGps(s, was, deps) ==
  IF was.mounted /\ was.deps.gps # deps.gps THEN GpsCleanup(s) ELSE s

\* bodies of the effects whose dependencies changed
RunCreate(s, was) == IF ~was.mounted THEN CreateMapEffect(s) ELSE s

RunGhost(s, was, deps) ==
  IF was.deps.ghost # deps.ghost THEN GhostEffect(s) ELSE s

RunRefresh(s, was, deps) ==
  IF was.deps.refresh # deps.refresh THEN RefreshEffect(s) ELSE s

RunGps(s, was, deps) == IF was.deps.gps # deps.gps THEN GpsEffect(s) ELSE s

RunDot(s, was, deps) == IF was.deps.dot # deps.dot THEN DotEffect(s) ELSE s

\* the effects of the instance for the render a: clean-ups, then bodies
MapEffects(a, was, deps) ==
  [RunDot(RunGps(RunRefresh(RunGhost(RunCreate(
     CleanGps(CleanRefresh(CleanGhost(a, was, deps), was, deps), was, deps),
     was), was, deps), was, deps), was, deps), was, deps)
   EXCEPT !.m.mounted = TRUE, !.m.deps = deps]

MapRender(a) == MapEffects(a, a.m, Deps(a))

\* passive effects of the commit for the MultiRouteMap subtree; a changed key
\* unmounts the instance first
MapFlush(s) == MapRender(IF s.m.key # Key(s) THEN Unmount(s) ELSE s)

\* ---------------------------------------------------------------------
\* App: effects
\* ---------------------------------------------------------------------

resetPlayback(s) == [s EXCEPT !.isPlaybackOn = FALSE, !.playbackProgress = 0]

\* identity of the activeEvent memo: a new object for every change of
\* [events, activeEventId]
SnapDeps(s) == <<Len(s.events) > 0, s.activeEventId>>

\* snap the selected route to the event's default when the active event changes
SnapEffect(s) ==
  IF activeEvent(s) = NullEvent THEN s
  ELSE IF pickDefaultRoute(activeEvent(s)) = NullRoute THEN s
  ELSE resetPlayback(
         [s EXCEPT !.selectedRouteId = pickDefaultRoute(activeEvent(s)).id])

\* fault: the playback speed is missing from the dependencies of the loop
LoopDeps_NoSpeed(s) == <<s.isPlaybackOn, "med", selectedRoute(s).id>>

LoopDeps(s) == <<s.isPlaybackOn, s.playbackSpeed, selectedRoute(s).id>>

\* fault: the clean-up does not cancel the pending frame
LoopCleanup_NoCancel(s) == s

\* the clean-up of the playback loop effect: cancelAnimationFrame(frameId)
LoopCleanup(s) == [s EXCEPT !.loop.frameId = 0, !.loop.lastTime = "none"]

\* the playback loop effect: lastTime = performance.now(), request a frame.
\* loop.deps keeps the isPlaybackOn, playbackSpeed and selectedRoute the
\* closure of tick captured.
LoopEffect(s) ==
  IF ~s.isPlaybackOn \/ selectedRoute(s) = NullRoute
    THEN [s EXCEPT !.loop.deps = LoopDeps(s)]
    ELSE [s EXCEPT !.loop = [deps |-> LoopDeps(s), frameId |-> 1,
                             lastTime |-> "performance.now"]]

RunLoop(s) ==
  IF s.loop.deps # LoopDeps(s) THEN LoopEffect(LoopCleanup(s)) ELSE s

\* the snap effect runs with the render a; its setState calls take effect
\* after the effects of the commit have run
RunSnap(s, a) ==
  IF a.snapDeps # SnapDeps(a)
    THEN SnapEffect([s EXCEPT !.snapDeps = SnapDeps(a)])
    ELSE s

\* passive effects of the commit for App
AppFlush(s) == RunSnap(RunLoop(s), s)

AppState(s) == <<s.selectedRouteId, s.isPlaybackOn, s.playbackProgress>>

RECURSIVE Effects(_)

\* a state change made by an effect renders again and runs the effects of
\* that render
Rerender(s1, s) == IF AppState(s1) # AppState(s) THEN Effects(s1) ELSE s1

\* the passive effects of a commit, children first
Effects(s) == Rerender(AppFlush(MapFlush(s)), s)

\* all passive effects of a commit
FlushEffects(s) == [Effects(s) EXCEPT !.effectsPending = FALSE]

\* React runs pending passive effects before it renders again
FlushPending(s) == IF s.effectsPending THEN FlushEffects(s) ELSE s

\* an update in a discrete event: render, commit, effects
CommitSync(s) == FlushEffects(s)

\* an update outside a discrete event: render and commit, effects later
CommitDeferred(s) == [s EXCEPT !.effectsPending = TRUE]

\* ---------------------------------------------------------------------
\* App: what the handlers do to the state they find
\* ---------------------------------------------------------------------

RouteIdOrNull(route) == IF route = NullRoute THEN Null ELSE route.id

\* setEvents(loaded); setActiveEventId(newest); setSelectedRouteId(default)
InitLoaded(s, loaded) ==
  IF Len(loaded) > 0
    THEN [s EXCEPT !.events = loaded,
                   !.activeEventId = loaded[1].eventId,
                   !.selectedRouteId = RouteIdOrNull(pickDefaultRoute(loaded[1]))]
    ELSE [s EXCEPT !.events = loaded]

EventSelected(s, eventId) ==
  resetPlayback(
    [s EXCEPT !.activeEventId = eventId,
              !.selectedRouteId =
                 RouteIdOrNull(pickDefaultRoute(EventById(s.events, eventId)))])

RouteSelected(s, routeId) == resetPlayback([s EXCEPT !.selectedRouteId = routeId])

\* fault: starting playback keeps the progress it finds
PlaybackToggled_Resume(s) ==
  IF selectedRoute(s) = NullRoute THEN s
  ELSE [s EXCEPT !.isPlaybackOn = ~@]

PlaybackToggled(s) ==
  IF selectedRoute(s) = NullRoute THEN s
  ELSE IF ~s.isPlaybackOn
    THEN [s EXCEPT !.playbackProgress = 0, !.isPlaybackOn = TRUE]
  ELSE [s EXCEPT !.isPlaybackOn = FALSE]

\* fault: the progress stops short of the end and playback stays on
Advanced_Clamped(s, dt, deps) ==
  IF s.playbackProgress + delta(dt, RouteById(deps[3]), deps[2]) >= ProgressOne
    THEN [s EXCEPT !.playbackProgress = ProgressOne - 1]
    ELSE [s EXCEPT !.playbackProgress =
                      @ + delta(dt, RouteById(deps[3]), deps[2])]

\* setPlaybackProgress((prev) => ...) of a frame callback whose closure
\* captured the speed and route of deps
Advanced(s, dt, deps) ==
  IF s.playbackProgress + delta(dt, RouteById(deps[3]), deps[2]) >= ProgressOne
    THEN [s EXCEPT !.isPlaybackOn = FALSE, !.playbackProgress = 0]
    ELSE [s EXCEPT !.playbackProgress =
                      @ + delta(dt, RouteById(deps[3]), deps[2])]

\* ---------------------------------------------------------------------
\* ElevationChart: what the useMemo of the component computes from its props.
\* Distances are kept as numerators over METERS_PER_MILE_X100, elevations
\* in feet, the coordinates of the dot in units of 1/ProgressOne.
\* ---------------------------------------------------------------------

\* METERS_PER_MILE = 1609.34, times 100
METERS_PER_MILE_X100 == 160934

\* FEET_PER_METER = 3.28084, times FeetScale
FEET_PER_METER_SCALED == 328084

FeetScale == 100000

\* Math.round(num / den) for den > 0: the nearest integer, halves upwards
MathRound(num, den) == (2 * num + den) \div (2 * den)

\* elevFt: Math.round(m * FEET_PER_METER)
elevFt(elevM) ==
  [i \in 1..Len(elevM) |-> MathRound(elevM[i] * FEET_PER_METER_SCALED, FeetScale)]

\* distMi: m / METERS_PER_MILE, as the numerator over METERS_PER_MILE_X100
distMi(distM) == [i \in 1..Len(distM) |-> distM[i] * 100]

\* fault: a single sample is accepted as a series
validSeries_NonEmpty(route) ==
  /\ Len(route.distanceSeries) > 0
  /\ Len(route.distanceSeries) = Len(route.elevationSeries)

validSeries(route) ==
  /\ Len(route.distanceSeries) > 1
  /\ Len(route.distanceSeries) = Len(route.elevationSeries)

hasSeries(route) == route # NullRoute /\ validSeries(route)

\* a + (b - a) * t, times ProgressOne, for t = tNum / ProgressOne
\* fault: no interpolation, the sample below the index is taken
lerp_Start(a, b, tNum) == a * ProgressOne

lerp(a, b, tNum) == a * ProgressOne + (b - a) * tNum

\* the point of the "Playback Dot" dataset for index i0 (0-based) and
\* fraction tNum
ChartDotAt(xs, ys, i0, tNum) ==
  [shown |-> TRUE,
   x |-> lerp(xs[i0 + 1], xs[(IF i0 + 1 < Len(ys) - 1 THEN i0 + 1
                              ELSE Len(ys) - 1) + 1], tNum),
   y |-> lerp(ys[i0 + 1], ys[(IF i0 + 1 < Len(ys) - 1 THEN i0 + 1
                              ELSE Len(ys) - 1) + 1], tNum)]

NoDot == [shown |-> FALSE, x |-> 0, y |-> 0]

\* the playback dot of the chart, NoDot when none is drawn
ChartDot(route, progress) ==
  IF ~hasSeries(route) THEN NoDot
  ELSE IF progress < 0 \/ progress > ProgressOne THEN NoDot
  ELSE ChartDotAt(distMi(route.distanceSeries), elevFt(route.elevationSeries),
                  (progress * (Len(route.elevationSeries) - 1)) \div ProgressOne,
                  (progress * (Len(route.elevationSeries) - 1)) % ProgressOne)

\* what the component renders: the chart or the unavailable state, and the dot
ElevationChart(route, progress) ==
  [hasSeries |-> hasSeries(route), dot |-> ChartDot(route, progress)]

\* ---------------------------------------------------------------------
\* State
\* ---------------------------------------------------------------------

VARIABLES
  events,            \* useState: the loaded catalog, <<>> before the load
  activeEventId,     \* useState
  selectedRouteId,   \* useState
  isLiveGpsOn,       \* useState
  isPlaybackOn,      \* useState
  playbackSpeed,     \* useState
  playbackProgress,  \* useState, in units of 1/ProgressOne
  snapDeps,          \* dependencies the snap effect last ran with
  loop,              \* closure of the playback loop effect: deps, frameId, lastTime
  effectsPending,    \* a commit's passive effects have not run yet
  m,                 \* the MultiRouteMap instance: refs, map, effect state
  maps,              \* maplibre maps constructed and not removed
  watches,           \* navigator.geolocation watches registered and not cleared
  geolocation,       \* "geolocation" in navigator
  chart,             \* what ElevationChart rendered last
  lastOp             \* history: the last step and the state it started from

vars ==
  <<events, activeEventId, selectedRouteId, isLiveGpsOn, isPlaybackOn,
    playbackSpeed, playbackProgress, snapDeps, loop, effectsPending, m, maps,
    watches, geolocation, chart, lastOp>>

\* the state as a record; the history flags of m tell about one step only
Cur ==
  [events |-> events, activeEventId |-> activeEventId,
   selectedRouteId |-> selectedRouteId, isLiveGpsOn |-> isLiveGpsOn,
   isPlaybackOn |-> isPlaybackOn, playbackSpeed |-> playbackSpeed,
   playbackProgress |-> playbackProgress, snapDeps |-> snapDeps,
   loop |-> loop, effectsPending |-> effectsPending,
   m |-> [m EXCEPT !.flags = NoFlags], maps |-> maps,
   watches |-> watches, geolocation |-> geolocation]

\* largest number of deferred callbacks explored on one map
MaxHandlers == 4

InBounds(s) ==
  /\ s.playbackProgress >= -MaxUnder
  /\ Len(s.m.handlers) <= MaxHandlers

Op(name, arg) ==
  [op |-> name, arg |-> arg, wasOn |-> isPlaybackOn,
   progress |-> playbackProgress, route |-> selectedRoute(Cur).id,
   event |-> activeEvent(Cur).eventId]

Set(s, op) ==
  /\ InBounds(s)
  /\ events' = s.events
  /\ activeEventId' = s.activeEventId
  /\ selectedRouteId' = s.selectedRouteId
  /\ isLiveGpsOn' = s.isLiveGpsOn
  /\ isPlaybackOn' = s.isPlaybackOn
  /\ playbackSpeed' = s.playbackSpeed
  /\ playbackProgress' = s.playbackProgress
  /\ snapDeps' = s.snapDeps
  /\ loop' = s.loop
  /\ effectsPending' = s.effectsPending
  /\ m' = s.m
  /\ maps' = s.maps
  /\ watches' = s.watches
  /\ geolocation' = s.geolocation
  /\ chart' = ElevationChart(selectedRoute(s), s.playbackProgress)
  /\ lastOp' = op

Init ==
  /\ events = <<>>
  /\ activeEventId = Null
  /\ selectedRouteId = Null
  /\ isLiveGpsOn = FALSE
  /\ isPlaybackOn = FALSE
  /\ playbackSpeed = "med"
  /\ playbackProgress = 0
  /\ snapDeps = <<FALSE, Null>>
  /\ loop = [deps |-> <<FALSE, "med", Null>>, frameId |-> 0, lastTime |-> "none"]
  /\ effectsPending = TRUE
  /\ m = NewInstance("none", NoFlags)
  /\ maps = {}
  /\ watches = {}
  /\ geolocation \in BOOLEAN
  /\ chart = ElevationChart(NullRoute, 0)
  /\ lastOp = [op |-> "init", arg |-> "", wasOn |-> FALSE, progress |-> 0,
               route |-> Null, event |-> Null]

\* ---------------------------------------------------------------------
\* Actions
\* ---------------------------------------------------------------------

\* the continuation of init(): loadSUCEvents() resolved
LoadEvents ==
  /\ Len(events) = 0
  /\ ~effectsPending
  /\ Set(CommitDeferred(InitLoaded(Cur, LoadedEvents)),
         Op("LoadEvents", ""))

\* the event select, rendered once the catalog is loaded
handleEventSelect(eventId) ==
  /\ Len(events) > 0
  /\ ~effectsPending
  /\ Set(CommitSync(EventSelected(Cur, eventId)),
         Op("handleEventSelect", eventId))

\* a route tab of the active event
handleRouteSelect(routeId) ==
  /\ \E i \in 1..Len(activeEvent(Cur).routes) :
        activeEvent(Cur).routes[i].id = routeId
  /\ ~effectsPending
  /\ Set(CommitSync(RouteSelected(Cur, routeId)),
         Op("handleRouteSelect", routeId))

\* the play / pause button, rendered while a route is selected
togglePlayback ==
  /\ selectedRoute(Cur) # NullRoute
  /\ ~effectsPending
  /\ Set(CommitSync(PlaybackToggled(Cur)),
         Op("togglePlayback", ""))

\* a speed button, rendered while a route is selected
setSpeed(speed) ==
  /\ selectedRoute(Cur) # NullRoute
  /\ ~effectsPending
  /\ Set(CommitSync([Cur EXCEPT !.playbackSpeed = speed]),
         Op("setSpeed", speed))

\* the GPS toggle button: setIsLiveGpsOn((prev) => !prev)
ToggleLiveGps ==
  /\ ~effectsPending
  /\ Set(CommitSync([Cur EXCEPT !.isLiveGpsOn = ~@]), Op("ToggleLiveGps", ""))

\* a frame callback of the playback loop fires with timestamp lastTime + dt:
\* it requests the next frame, and the update it queued is rendered
tick(dt) ==
  /\ loop.frameId # 0
  /\ dt \in (IF loop.lastTime = "performance.now"
               THEN (0 - MaxSkew)..MaxDt ELSE 1..MaxDt)
  /\ Set(CommitDeferred(
           Advanced(FlushPending([Cur EXCEPT !.loop.lastTime = "frame",
                                             !.loop.frameId = 1]),
                    dt, loop.deps)),
         Op("tick", ""))

\* the scheduler runs the passive effects of the last commit
FlushPassiveEffects ==
  /\ effectsPending
  /\ Set(FlushEffects(Cur), Op("FlushPassiveEffects", ""))

\* fn() of a deferred registration; notes when a torn-down registration runs
RunCallback(mm, h) ==
  CASE h.kind = "ghost" -> ghostCallback(mm, h)
    [] h.kind = "refresh" -> refreshCallback(mm, h)
    [] h.kind = "gpsOff" -> gpsOffCallback(mm, h)
    [] h.kind = "gpsOn" -> gpsOnCallback(mm, h)

RECURSIVE RunCallbacks(_, _, _)
RunCallbacks(mm, hs, i) ==
  IF i > Len(hs) THEN mm
  ELSE RunCallbacks(
         RunCallback([mm EXCEPT !.flags.staleRan = @ \/ hs[i].torn], hs[i]),
         hs, i + 1)

\* the map fires "styledata": the style is loaded, the once-handlers run
StyleData ==
  /\ m.mapRef # 0
  /\ ~m.styleLoaded
  /\ Set([Cur EXCEPT !.m = RunCallbacks(
                      [@ EXCEPT !.styleLoaded = TRUE, !.handlers = <<>>],
                      m.handlers, 1)],
         Op("StyleData", ""))

FixPoints == { <<20, 20>>, <<24, 20>> }

\* success callback of watchPosition
PositionFix(w, c) ==
  /\ w \in watches
  /\ Set([Cur EXCEPT !.m = IF w.live /\ @.mapRef # 0 /\ getSource(@, ID.gpsSrc)
                             THEN easeTo(setData(@, ID.gpsSrc, <<c>>), c)
                             ELSE @],
         Op("PositionFix", ""))

\* fault: the error callback gives the watch up
PositionError_Stops(w) ==
  /\ w \in watches
  /\ Set([Cur EXCEPT !.watches = @ \ {w}], Op("PositionError", ""))

\* error callback of watchPosition: console.warn only
PositionError(w) ==
  /\ w \in watches
  /\ Set(Cur, Op("PositionError", ""))

Next ==
  \/ LoadEvents
  \/ \E eventId \in EventIds : handleEventSelect(eventId)
  \/ \E r \in AllRoutes : handleRouteSelect(r.id)
  \/ togglePlayback
  \/ \E speed \in Speeds : setSpeed(speed)
  \/ ToggleLiveGps
  \/ \E dt \in (0 - MaxSkew)..MaxDt : tick(dt)
  \/ FlushPassiveEffects
  \/ StyleData
  \/ \E w \in watches, c \in FixPoints : PositionFix(w, c)
  \/ \E w \in watches : PositionError(w)

Spec == Init /\ [][Next]_vars

TypeOK ==
  /\ isPlaybackOn \in BOOLEAN
  /\ playbackSpeed \in Speeds
  /\ playbackProgress \in (0 - MaxUnder)..(ProgressOne - 1)

\* ---------------------------------------------------------------------
\* Properties
\* ---------------------------------------------------------------------

\* the last step was op
After(op) == lastOp.op = op

\* C1: handleRouteSelect for a different route of the active event, taken
\* while playback is running at any progress, leaves playbackProgress = 0 and
\* isPlaybackOn = FALSE in the same update and leaves no frame callback
\* pending; and whenever a frame callback is pending, it belongs to the loop
\* of the route that is selected now, so no frame of a previously selected
\* route can change the progress.
C1_RouteSwitchResets ==
  /\ (After("handleRouteSelect") /\ lastOp.wasOn /\ lastOp.arg # lastOp.route)
       => /\ selectedRoute(Cur).id = lastOp.arg
          /\ playbackProgress = 0
          /\ ~isPlaybackOn
          /\ loop.frameId = 0
  /\ loop.frameId # 0 => loop.deps[3] = selectedRoute(Cur).id

C1_Witness ==
  /\ After("handleRouteSelect")
  /\ lastOp.wasOn
  /\ lastOp.progress > 0
  /\ lastOp.arg # lastOp.route
  /\ selectedRoute(Cur).id = lastOp.arg
  /\ playbackProgress = 0

\* C2, as claimed: once a run has wrapped (progress 0, not running), no later
\* frame callback of that run advances or resets the progress again: a frame
\* callback that finds playback off leaves progress 0 and playback off.
C2_WrapsOnce ==
  (After("tick") /\ ~lastOp.wasOn) => (playbackProgress = 0 /\ ~isPlaybackOn)

\* C3, as claimed: playbackProgress lies in [0, 1] in every reachable state,
\* whatever timestamps the frame callbacks receive.
C3_ProgressInRange == playbackProgress >= 0 /\ playbackProgress <= ProgressOne

\* C4, as claimed: a frame callback that finds playback running and leaves it
\* running leaves playbackProgress greater than or equal to what it found.
C4_TickNeverDecreases ==
  (After("tick") /\ lastOp.wasOn /\ isPlaybackOn)
    => playbackProgress >= lastOp.progress

\* C5, as claimed: togglePlayback at a progress p with 0 < p < 1 leaves the
\* progress at p, when it pauses and when it resumes.
C5_ResumeContinues ==
  (After("togglePlayback") /\ lastOp.progress > 0 /\ lastOp.progress < ProgressOne)
    => playbackProgress = lastOp.progress

\* C5, amended: togglePlayback while running pauses and keeps the progress;
\* togglePlayback while not running starts playback from progress 0,
\* whatever progress the pause had kept.
C5_PauseKeepsStartResets ==
  After("togglePlayback") =>
    IF lastOp.wasOn
      THEN ~isPlaybackOn /\ playbackProgress = lastOp.progress
      ELSE isPlaybackOn /\ playbackProgress = 0

C5_Witness ==
  /\ After("togglePlayback")
  /\ ~lastOp.wasOn
  /\ lastOp.progress > 0
  /\ lastOp.progress < ProgressOne
  /\ isPlaybackOn
  /\ playbackProgress = 0

\* the default route of an event as the specification words it: none for an
\* event without routes, the route labelled XL if there is one, otherwise a
\* route of the greatest distance
IsDefaultRouteOf(route, event) ==
  IF Len(event.routes) = 0 THEN route = NullRoute
  ELSE /\ \E i \in 1..Len(event.routes) : event.routes[i] = route
       /\ IF \E i \in 1..Len(event.routes) : event.routes[i].label = "XL"
            THEN route.label = "XL"
            ELSE \A i \in 1..Len(event.routes) :
                    event.routes[i].distanceMi <= route.distanceMi

\* C6: handleEventSelect for another event, taken while playback is running
\* at any progress, makes that event the active event, makes its default
\* route the selected route, and leaves playbackProgress = 0 and
\* isPlaybackOn = FALSE.
C6_EventSwitchSelectsDefault ==
  (After("handleEventSelect") /\ lastOp.wasOn /\ lastOp.arg # lastOp.event)
    => /\ activeEventId = lastOp.arg
       /\ activeEvent(Cur).eventId = lastOp.arg
       /\ IsDefaultRouteOf(selectedRoute(Cur), activeEvent(Cur))
       /\ selectedRouteId = selectedRoute(Cur).id
       /\ playbackProgress = 0
       /\ ~isPlaybackOn

C6_Witness ==
  /\ After("handleEventSelect")
  /\ lastOp.wasOn
  /\ lastOp.progress > 0
  /\ lastOp.event = "e3"
  /\ activeEventId = "e2"
  /\ selectedRouteId = "r22"
  /\ playbackProgress = 0

\* C7: at most one map exists at any moment, and it is the one the mounted
\* instance holds: the creation effect never constructs a map while another
\* exists, an instance whose effects have run holds a map, and unmount
\* (a changed key included) removes the map exactly once and clears the
\* reference, so that no map outlives its instance.
C7_OneMapPerMount ==
  /\ Cardinality(maps) <= 1
  /\ maps = IF m.mapRef # 0 THEN {m.mapRef} ELSE {}
  /\ m.mounted => m.mapRef # 0
  /\ ~m.flags.dupCreate
  /\ ~m.flags.doubleRemove

C7_Witness ==
  /\ After("handleEventSelect")
  /\ lastOp.arg # lastOp.event
  /\ m.key = lastOp.arg
  /\ m.mounted
  /\ maps = {m.mapRef}

\* C8: with a style that becomes ready once per map, no source or layer is
\* added, removed or given new data while the style of the map is not
\* loaded, and a map whose style is not loaded carries no source or layer.
C8_NoMutationBeforeStyleLoaded ==
  /\ ~m.flags.unready
  /\ (m.sources # {} \/ Len(m.layers) > 0) => m.styleLoaded

C8_Witness ==
  /\ After("StyleData")
  /\ m.styleLoaded
  /\ getSource(m, ID.permanentSrc)
  /\ getLayer(m, ID.selectedLine)
  /\ getLayer(m, ID.gpsLayer)

\* C9, as claimed: no callback deferred by withStyleLoaded runs after the
\* effect run that registered it has been cleaned up.
C9_NoCallbackAfterTeardown == ~m.flags.staleRan

\* C10: at most one geolocation watch is registered in every reachable
\* state, and it is the one whose id the mounted instance holds; a route
\* change with live GPS on clears the previous watch before the effect
\* registers the new one.
C10_AtMostOneWatch ==
  /\ Cardinality(watches) <= 1
  /\ \A w \in watches : w.live /\ w.id = m.gpsWatchIdRef
  /\ m.gpsWatchIdRef # 0 => watches # {}

C10_Witness ==
  /\ After("handleRouteSelect")
  /\ lastOp.arg # lastOp.route
  /\ isLiveGpsOn
  /\ Cardinality(watches) = 1

\* the last step unmounted the instance and ran its clean-ups: an event
\* select that changed the key of MultiRouteMap
Remounted == After("handleEventSelect") /\ lastOp.arg # lastOp.event

\* C11: no geolocation watch outlives the instance that registered it: once
\* the clean-ups of an unmounted instance have run, no watch it registered
\* is left, also after an unmount with live GPS on (the remount an
\* active-event change causes), where the only watch left is the one the
\* new instance registered; so no position fix of an unmounted instance can
\* reach a map.
C11_NoWatchOutlivesInstance ==
  /\ \A w \in watches : w.live
  /\ (Remounted /\ isLiveGpsOn)
       => /\ m.key = lastOp.arg
          /\ \A w \in watches : w.id = m.gpsWatchIdRef
          /\ Cardinality(watches) = IF geolocation THEN 1 ELSE 0

C11_Witness ==
  /\ After("handleEventSelect")
  /\ lastOp.arg # lastOp.event
  /\ isLiveGpsOn
  /\ m.key = lastOp.arg
  /\ m.gpsWatchIdRef # 0
  /\ watches = {[id |-> m.gpsWatchIdRef, live |-> TRUE]}

\* C12: while live GPS is off no geolocation watch is registered and the
\* stored watch id is null; and once the style of the map is ready, neither
\* the user-location layer nor the user-location source is on the map.
C12_GpsOffRemovesMarker ==
  ~isLiveGpsOn =>
    /\ watches = {}
    /\ m.gpsWatchIdRef = 0
    /\ m.styleLoaded =>
         ~getLayer(m, ID.gpsLayer) /\ ~getSource(m, ID.gpsSrc)

C12_Witness ==
  /\ After("ToggleLiveGps")
  /\ ~isLiveGpsOn
  /\ m.styleLoaded
  /\ watches = {}
  /\ m.gpsWatchIdRef = 0
  /\ ~getSource(m, ID.gpsSrc)
  /\ getSource(m, ID.selectedSrc)

\* all vertices of the line geometry of a route, one line feature or several
RouteVertices(route) ==
  Concat([k \in 1..Len(SelectSeq(RouteFeatures(route), IsLine)) |->
            LineCoords(SelectSeq(RouteFeatures(route), IsLine)[k])], 1)

\* C13, as claimed: when live GPS is toggled off while the style is ready and
\* the selected route has at least one line vertex, the camera is fitted to
\* the bounding box of all vertices of the route's line geometry.
C13_GpsOffFramesRoute ==
  (/\ After("ToggleLiveGps")
   /\ ~isLiveGpsOn
   /\ m.styleLoaded
   /\ Len(RouteVertices(selectedRoute(Cur))) > 0)
    => m.camera = [op |-> "fitBounds",
                   box |-> BoundsOf(RouteVertices(selectedRoute(Cur)))]

\* C14, as claimed: while live GPS is on, the playback-dot effect issues no
\* camera animation.
C14_NoFollowCamWhileGpsOn == isLiveGpsOn => ~m.flags.dotMoved

\* C15: toggling live GPS on while playback is running leaves isPlaybackOn
\* TRUE and playbackProgress as it was, and the route-playback layer and
\* source of the selected route stay on the map (they are there whenever
\* the style is ready and the selected route has line vertices).
C15_GpsOnKeepsPlayback ==
  (After("ToggleLiveGps") /\ isLiveGpsOn /\ lastOp.wasOn)
    => /\ isPlaybackOn
       /\ playbackProgress = lastOp.progress
       /\ selectedRoute(Cur).id = lastOp.route
       /\ (m.styleLoaded /\ Len(RouteVertices(selectedRoute(Cur))) > 0)
            => /\ getLayer(m, ID.playbackLayer)
               /\ getSource(m, ID.playbackSrc)
               /\ m.playbackCoordsRef = RouteVertices(selectedRoute(Cur))

C15_Witness ==
  /\ After("ToggleLiveGps")
  /\ isLiveGpsOn
  /\ lastOp.wasOn
  /\ lastOp.progress > 0
  /\ playbackProgress = lastOp.progress
  /\ getLayer(m, ID.playbackLayer)
  /\ getLayer(m, ID.gpsLayer)

\* ---------------------------------------------------------------------
\* The overlay reconciliation on its own: the ghost effect and the refresh
\* pass run again and again on one map whose style is loaded, for one
\* catalog, active event and selected route drawn at the start
\* ---------------------------------------------------------------------

\* number of reconciliations in succession
MaxPasses == 2

InitReconcile ==
  /\ events \in {<<>>, LoadedEvents}
  /\ activeEventId \in EventIds \cup {Null}
  /\ selectedRouteId \in {r.id : r \in AllRoutes} \cup {Null}
  /\ isLiveGpsOn = FALSE
  /\ isPlaybackOn = FALSE
  /\ playbackSpeed = "med"
  /\ playbackProgress = 0
  /\ snapDeps = <<FALSE, Null>>
  /\ loop = [deps |-> <<FALSE, "med", Null>>, frameId |-> 0, lastTime |-> "none"]
  /\ effectsPending = FALSE
  /\ m = [NewInstance(Key([events |-> events,
                               activeEventId |-> activeEventId]), NoFlags)
            EXCEPT !.mounted = TRUE, !.mapRef = 1, !.styleLoaded = TRUE]
  /\ maps = {1}
  /\ watches = {}
  /\ geolocation \in BOOLEAN
  /\ chart = ElevationChart(selectedRoute(
                [events |-> events, activeEventId |-> activeEventId,
                 selectedRouteId |-> selectedRouteId]), 0)
  /\ lastOp = [Op("none", "") EXCEPT !.progress = 0]

\* one reconciliation: effects 2 and 3 of MultiRouteMap; the count of the
\* passes made so far is kept in lastOp.progress
Reconcile ==
  /\ lastOp.progress < MaxPasses
  /\ Set(RefreshEffect(GhostEffect(Cur)),
         [Op("Reconcile", "") EXCEPT !.progress = lastOp.progress + 1])

SpecReconcile == InitReconcile /\ [][Reconcile]_vars

\* C16, as claimed: a second reconciliation in succession with the same
\* catalog, active event and selected route adds no id that is already
\* present and removes no layer or source only to add it again.
C16_SecondPassNoChurn ==
  (After("Reconcile") /\ lastOp.progress >= 2)
    => ~m.flags.dupAdd /\ ~m.flags.churn

\* C17: no step invokes addSource or addLayer with an id that is present on
\* the map at that moment: within one update the layers and sources of the
\* previous selection are removed before those of the new selection are
\* added.
C17_NoDuplicateIdAdded == ~m.flags.dupAdd

C17_Witness ==
  /\ After("handleRouteSelect")
  /\ lastOp.arg # lastOp.route
  /\ m.styleLoaded
  /\ isLiveGpsOn
  /\ {ID.selectedLine, ID.selectedSrc, ID.gpsLayer} \subseteq m.flags.removed
  /\ getLayer(m, ID.selectedLine)
  /\ getSource(m, ID.selectedSrc)
  /\ getLayer(m, ID.gpsLayer)

\* place of a layer in the stacking order the specification fixes: ghost
\* backdrop, event underlay, selected-route glow and line, POI markers, then
\* the live-GPS and playback dots
StackRank(id) ==
  CASE id = ID.permanentLayer -> 1
    [] id = ID.baseLayer -> 2
    [] id = ID.selectedGlow -> 3
    [] id = ID.selectedLine -> 4
    [] id = ID.poiLayer -> 5
    [] id = ID.gpsLayer -> 6
    [] id = ID.playbackLayer -> 6

\* C18: the layers of the map, bottom to top, are in the order ghost
\* backdrop, event underlay, selected-route glow and line, POI markers, then
\* the live-GPS and playback dots, in every reachable state.
C18_StackingOrder ==
  \A i, j \in 1..Len(m.layers) :
    i < j => StackRank(m.layers[i]) <= StackRank(m.layers[j])

C18_Witness ==
  /\ After("handleRouteSelect")
  /\ lastOp.arg # lastOp.route
  /\ isLiveGpsOn
  /\ getLayer(m, ID.permanentLayer)
  /\ getLayer(m, ID.baseLayer)
  /\ getLayer(m, ID.selectedLine)
  /\ getLayer(m, ID.poiLayer)
  /\ getLayer(m, ID.gpsLayer)
  /\ getLayer(m, ID.playbackLayer)

\* the features the ghost source holds
GhostFeatures == m.data[ID.permanentSrc]

\* the ghost reconciliation of the mounted instance has run for this render
GhostReconciled ==
  m.mounted /\ m.styleLoaded /\ ~effectsPending /\ Len(events) > 0

\* the ghost source holds no feature of the active event
GhostExcludesActive ==
  \A k \in 1..Len(GhostFeatures) :
    GhostFeatures[k].eventId # activeEvent(Cur).eventId

\* the ghost source holds every line feature of every route of ev
GhostHoldsLinesOf(ev) ==
  \A i \in 1..Len(ev.routes) :
    Cardinality({k \in 1..Len(GhostFeatures) :
                   /\ GhostFeatures[k].eventId = ev.eventId
                   /\ GhostFeatures[k].routeId = ev.routes[i].id})
      = Len(SelectSeq(RouteFeatures(ev.routes[i]), IsLine))

\* C19, as claimed: after every ghost reconciliation the ghost source holds no
\* feature of the active event and holds every catalog line feature of
\* every other event.
C19_GhostIsAllOtherEvents ==
  GhostReconciled =>
    /\ GhostExcludesActive
    /\ \A e \in 1..Len(events) :
         events[e].eventId # activeEvent(Cur).eventId
           => GhostHoldsLinesOf(events[e])

\* C20: while the flattened coordinate list of the selected route has fewer
\* than 2 vertices, the playback-dot effect interpolates no position and
\* moves no camera, whatever the progress and the running flag; the playback
\* source shows no marker or a marker at the first vertex.
C20_ShortRouteNeverDrivesPlayback ==
  Len(RouteVertices(selectedRoute(Cur))) < 2 =>
    /\ ~m.flags.dotMoved
    /\ \/ m.data[ID.playbackSrc] = <<>>
       \/ /\ Len(RouteVertices(selectedRoute(Cur))) = 1
          /\ m.data[ID.playbackSrc] = RouteVertices(selectedRoute(Cur))

C20_Witness ==
  /\ After("FlushPassiveEffects")
  /\ lastOp.wasOn
  /\ isPlaybackOn
  /\ playbackProgress > 0
  /\ ~effectsPending
  /\ m.styleLoaded
  /\ m.playbackCoordsRef = RouteVertices(selectedRoute(Cur))
  /\ Len(m.playbackCoordsRef) = 1
  /\ getSource(m, ID.playbackSrc)

\* ---------------------------------------------------------------------
\* The playback dot effect on its own: one run of effect 5 with playback
\* running, for a coordinate list and a progress drawn at the start
\* ---------------------------------------------------------------------

\* longest flattened coordinate list drawn
MaxDotLen == 3

DotPoints == { <<0, 0>>, <<0, 8>>, <<4, 4>> }

\* the coordinate lists of 2 to MaxDotLen vertices
DotLists == UNION { [1..n -> DotPoints] : n \in 2..MaxDotLen }

InitDot ==
  /\ events = LoadedEvents
  /\ activeEventId = "e3"
  /\ selectedRouteId = "r31"
  /\ isLiveGpsOn = FALSE
  /\ isPlaybackOn = TRUE
  /\ playbackSpeed = "med"
  /\ playbackProgress \in 0..ProgressOne
  /\ snapDeps = <<TRUE, "e3">>
  /\ loop = [deps |-> <<TRUE, "med", "r31">>, frameId |-> 1, lastTime |-> "frame"]
  /\ effectsPending = TRUE
  /\ \E coords \in DotLists :
       m = [NewInstance("e3", NoFlags)
              EXCEPT !.mounted = TRUE, !.mapRef = 1, !.styleLoaded = TRUE,
                     !.sources = {ID.playbackSrc},
                     !.layers = <<ID.playbackLayer>>,
                     !.playbackCoordsRef = coords]
  /\ maps = {1}
  /\ watches = {}
  /\ geolocation = TRUE
  /\ chart = ElevationChart(R31, playbackProgress)
  /\ lastOp = Op("none", "")

\* effect 5 runs for the render
EmitDot ==
  /\ effectsPending
  /\ Set([DotEffect(Cur) EXCEPT !.effectsPending = FALSE], Op("DotEffect", ""))

SpecDot == InitDot /\ [][EmitDot]_vars

\* point c lies on the segment from a to b
OnSegment(c, a, b) ==
  /\ (c[1] - a[1]) * (b[2] - a[2]) = (c[2] - a[2]) * (b[1] - a[1])
  /\ \A k \in 1..2 :
       \/ a[k] <= c[k] /\ c[k] <= b[k]
       \/ b[k] <= c[k] /\ c[k] <= a[k]

\* floor and ceiling of p * (N - 1), as 1-based positions in the list
FloorVertex(p, n) == (p * (n - 1)) \div ProgressOne + 1

CeilVertex(p, n) == (p * (n - 1) + ProgressOne - 1) \div ProgressOne + 1

\* C21: for every progress p in [0,1] and every coordinate list of N >= 2
\* vertices, the point the dot effect emits while playback is running lies
\* on the segment between vertex floor(p*(N-1)) and vertex ceil(p*(N-1)); p = 0
\* gives the first vertex, p = 1 the last, and the middle of a list of two
\* vertices gives their midpoint.
C21_DotOnSegment ==
  After("DotEffect") =>
    /\ Len(m.data[ID.playbackSrc]) = 1
    /\ m.flags.dotMoved
    /\ OnSegment(m.data[ID.playbackSrc][1],
                 m.playbackCoordsRef[FloorVertex(playbackProgress,
                                                 Len(m.playbackCoordsRef))],
                 m.playbackCoordsRef[CeilVertex(playbackProgress,
                                                Len(m.playbackCoordsRef))])
    /\ playbackProgress = 0
         => m.data[ID.playbackSrc][1] = m.playbackCoordsRef[1]
    /\ playbackProgress = ProgressOne
         => m.data[ID.playbackSrc][1]
              = m.playbackCoordsRef[Len(m.playbackCoordsRef)]
    /\ (2 * playbackProgress = ProgressOne /\ Len(m.playbackCoordsRef) = 2)
         => \A k \in 1..2 :
              2 * m.data[ID.playbackSrc][1][k]
                = m.playbackCoordsRef[1][k] + m.playbackCoordsRef[2][k]

C21_Witness ==
  /\ After("DotEffect")
  /\ 2 * playbackProgress = ProgressOne
  /\ m.playbackCoordsRef = << <<0, 0>>, <<0, 8>> >>
  /\ m.data[ID.playbackSrc] = << <<0, 4>> >>

\* the point at fraction p of a coordinate list by the fractional-index rule:
\* index p * (N - 1), linear between the two vertices that bracket it
PointAtFraction(coords, p) ==
  [k \in 1..2 |->
     coords[FloorVertex(p, Len(coords))][k]
       + ((coords[CeilVertex(p, Len(coords))][k]
             - coords[FloorVertex(p, Len(coords))][k])
            * ((p * (Len(coords) - 1)) % ProgressOne)) \div ProgressOne]

\* C22, as claimed: whenever the dot of the map and the dot of the chart
\* are both shown (and the effects of the render have run), the dot of the
\* map is at the same fraction playbackProgress of the route as the dot of
\* the chart, whether playback is running, paused or idle.
C22_DotsAgree ==
  (/\ ~effectsPending
   /\ ChartDot(selectedRoute(Cur), playbackProgress).shown
   /\ Len(m.data[ID.playbackSrc]) = 1
   /\ Len(m.playbackCoordsRef) >= 2)
  => m.data[ID.playbackSrc][1]
       = PointAtFraction(m.playbackCoordsRef, playbackProgress)

\* ---------------------------------------------------------------------
\* ElevationChart as a function of its props
\* ---------------------------------------------------------------------

\* longest series drawn
MaxSeriesLen == 3

\* the series of 0 to MaxSeriesLen samples, in metres
ChartSeries == UNION { [1..n -> {0, 25}] : n \in 0..MaxSeriesLen }

\* the props: no route, or a route with any two series, and any progress in
\* [0,1]; nothing is rendered yet
InitChart ==
  /\ \/ events = <<>>
     \/ \E d \in ChartSeries, e \in ChartSeries :
          events = << [eventId |-> "e3",
                       routes |-> << [R31 EXCEPT !.distanceSeries = d,
                                                 !.elevationSeries = e] >>] >>
  /\ activeEventId = IF events = <<>> THEN Null ELSE "e3"
  /\ selectedRouteId = IF events = <<>> THEN Null ELSE "r31"
  /\ isLiveGpsOn = FALSE
  /\ isPlaybackOn = FALSE
  /\ playbackSpeed = "med"
  /\ playbackProgress \in 0..ProgressOne
  /\ snapDeps = <<FALSE, Null>>
  /\ loop = [deps |-> <<FALSE, "med", Null>>, frameId |-> 0, lastTime |-> "none"]
  /\ effectsPending = TRUE
  /\ m = NewInstance("none", NoFlags)
  /\ maps = {}
  /\ watches = {}
  /\ geolocation = TRUE
  /\ chart = ElevationChart(NullRoute, 0)
  /\ lastOp = Op("none", "")

\* the component renders with the props
RenderChart ==
  /\ effectsPending
  /\ Set([Cur EXCEPT !.effectsPending = FALSE], Op("RenderChart", ""))

SpecChart == InitChart /\ [][RenderChart]_vars

\* the linear interpolation of the two samples of ys that bracket index
\* p * (n - 1), in units of 1/ProgressOne
Bracketed(ys, p) ==
  ys[FloorVertex(p, Len(ys))]
    * (ProgressOne - ((p * (Len(ys) - 1)) % ProgressOne))
  + ys[CeilVertex(p, Len(ys))] * ((p * (Len(ys) - 1)) % ProgressOne)

\* C23: for every valid series of n >= 2 samples the rendered dot is at the
\* first sample for progress 0, at the last sample for progress 1, and
\* otherwise at the linear interpolation of the two samples that bracket
\* index p * (n - 1) (coordinates in units of 1/ProgressOne).
C23_ChartDotInterpolates ==
  (/\ After("RenderChart")
   /\ Len(selectedRoute(Cur).distanceSeries) >= 2
   /\ Len(selectedRoute(Cur).distanceSeries)
        = Len(selectedRoute(Cur).elevationSeries)) =>
    /\ chart.hasSeries
    /\ chart.dot.shown
    /\ playbackProgress = 0 =>
         /\ chart.dot.x
              = distMi(selectedRoute(Cur).distanceSeries)[1] * ProgressOne
         /\ chart.dot.y
              = elevFt(selectedRoute(Cur).elevationSeries)[1] * ProgressOne
    /\ playbackProgress = ProgressOne =>
         /\ chart.dot.x
              = distMi(selectedRoute(Cur).distanceSeries)
                  [Len(selectedRoute(Cur).distanceSeries)] * ProgressOne
         /\ chart.dot.y
              = elevFt(selectedRoute(Cur).elevationSeries)
                  [Len(selectedRoute(Cur).elevationSeries)] * ProgressOne
    /\ chart.dot.x
         = Bracketed(distMi(selectedRoute(Cur).distanceSeries), playbackProgress)
    /\ chart.dot.y
         = Bracketed(elevFt(selectedRoute(Cur).elevationSeries), playbackProgress)

\* a dot strictly between two samples of different distance and elevation
C23_Witness ==
  /\ After("RenderChart")
  /\ selectedRoute(Cur).distanceSeries = <<0, 25, 0>>
  /\ selectedRoute(Cur).elevationSeries = <<0, 0, 25>>
  /\ playbackProgress = 3
  /\ chart.dot = [shown |-> TRUE, x |-> 5000, y |-> 164]

\* C24: the chart reports the unavailable state, no chart and no dot, for a
\* null route and for every route whose distance and elevation series are
\* not two series of equal length with at least 2 samples.
C24_UnavailableWithoutSeries ==
  (/\ After("RenderChart")
   /\ \/ selectedRoute(Cur) = NullRoute
      \/ Len(selectedRoute(Cur).distanceSeries) < 2
      \/ Len(selectedRoute(Cur).elevationSeries) < 2
      \/ Len(selectedRoute(Cur).distanceSeries)
           # Len(selectedRoute(Cur).elevationSeries))
  => ~chart.hasSeries /\ ~chart.dot.shown

\* series of different lengths, each of at least 2 samples
C24_Witness ==
  /\ After("RenderChart")
  /\ Len(selectedRoute(Cur).distanceSeries) = 3
  /\ Len(selectedRoute(Cur).elevationSeries) = 2
  /\ ~chart.hasSeries

\* C25: the error callback of the watch changes no state: isLiveGpsOn, the
\* registered watches, the sources, layers and data of the map (so the
\* user-location marker with its last data) and the camera stay as they
\* were; and a position fix that follows an error on a live watch still
\* writes the fix to the user-location source.
C25_ErrorChangesNothing ==
  [][/\ lastOp'.op = "PositionError" =>
          /\ isLiveGpsOn' = isLiveGpsOn
          /\ watches' = watches
          /\ m'.gpsWatchIdRef = m.gpsWatchIdRef
          /\ m'.sources = m.sources
          /\ m'.layers = m.layers
          /\ m'.data = m.data
          /\ m'.camera = m.camera
          /\ <<events', activeEventId', selectedRouteId', isPlaybackOn',
               playbackProgress', playbackSpeed'>>
               = <<events, activeEventId, selectedRouteId, isPlaybackOn,
                   playbackProgress, playbackSpeed>>
     /\ (/\ lastOp.op = "PositionError"
         /\ lastOp'.op = "PositionFix"
         /\ \A w \in watches : w.live
         /\ getSource(m, ID.gpsSrc))
          => /\ Len(m'.data[ID.gpsSrc]) = 1
             /\ m'.data[ID.gpsSrc][1] \in FixPoints
             /\ m'.camera.op = "easeTo"]_vars

\* an error arrives while the marker shows a fix: the marker keeps it
C25_Witness ==
  /\ After("PositionError")
  /\ isLiveGpsOn
  /\ watches # {}
  /\ getLayer(m, ID.gpsLayer)
  /\ m.data[ID.gpsSrc] = << <<24, 20>> >>

\* C26: once the refresh pass has run for a selected route that has no
\* geojson or no line feature, the map has no selected-route, POI or playback
\* source or layer and the playback coordinate cache is empty, while the
\* base underlay is present and holds exactly the features of the routes of
\* the event that have a geojson.
C26_MissingGeometryOmitted ==
  (/\ m.mounted /\ m.styleLoaded /\ ~effectsPending
   /\ selectedRoute(Cur) # NullRoute
   /\ \/ ~selectedRoute(Cur).hasGeojson
      \/ \A k \in 1..Len(selectedRoute(Cur).features) :
           selectedRoute(Cur).features[k].type
             \notin {"LineString", "MultiLineString"})
  => /\ m.sources \cap {ID.selectedSrc, ID.poiSrc, ID.playbackSrc} = {}
     /\ \A i \in 1..Len(m.layers) :
          m.layers[i] \notin {ID.selectedGlow, ID.selectedLine, ID.poiLayer,
                              ID.playbackLayer}
     /\ m.playbackCoordsRef = <<>>
     /\ getSource(m, ID.baseSrc)
     /\ getLayer(m, ID.baseLayer)
     /\ {m.data[ID.baseSrc][k] : k \in 1..Len(m.data[ID.baseSrc])}
          = UNION {{activeEvent(Cur).routes[i].features[j] :
                      j \in 1..Len(activeEvent(Cur).routes[i].features)} :
                   i \in {n \in 1..Len(activeEvent(Cur).routes) :
                            activeEvent(Cur).routes[n].hasGeojson}}

\* a route with a track was drawn, then a route with a point of interest and
\* no track is selected
C26_Witness ==
  /\ After("handleRouteSelect")
  /\ lastOp.route = "r22"
  /\ selectedRoute(Cur).id = "r24"
  /\ m.mounted /\ m.styleLoaded /\ ~effectsPending
  /\ getLayer(m, ID.baseLayer)
  /\ ~getSource(m, ID.selectedSrc)

\* C27, as claimed: a pending frame callback belongs to the loop of the
\* current selected route, speed and running flag, and none is pending while
\* isPlaybackOn is false; a frame callback that fires for a loop that has
\* been superseded changes neither the progress nor the running flag.
C27_OnePendingFrameOfCurrentLoop ==
  /\ loop.frameId # 0 =>
       /\ isPlaybackOn
       /\ loop.deps = <<isPlaybackOn, playbackSpeed, selectedRoute(Cur).id>>
  /\ (After("tick") /\ ~lastOp.wasOn) =>
       (playbackProgress = lastOp.progress /\ ~isPlaybackOn)

\* C28, as claimed: when another route with a track is selected while the
\* selected-route source and layers exist, the step that reconciles the map
\* removes neither the source nor its layers: the data and the colour are
\* replaced in place.
C28_SelectedRouteUpdatedInPlace ==
  (/\ After("handleRouteSelect")
   /\ lastOp.arg # lastOp.route
   /\ getSource(m, ID.selectedSrc))
  => m.flags.removed \cap {ID.selectedSrc, ID.selectedGlow, ID.selectedLine} = {}

\* ---------------------------------------------------------------------
\* The layer groups as a function of the catalog and the active event
\* ---------------------------------------------------------------------

\* the catalogs drawn: the runs of consecutive events of the loaded catalog
GroupCatalogs ==
  {SubSeq(LoadedEvents, a, b) : a \in 1..(Len(LoadedEvents) + 1),
                                b \in 0..Len(LoadedEvents)}

InitGroups ==
  /\ events = <<>>
  /\ activeEventId = Null
  /\ selectedRouteId = Null
  /\ isLiveGpsOn = FALSE
  /\ isPlaybackOn = FALSE
  /\ playbackSpeed = "med"
  /\ playbackProgress = 0
  /\ snapDeps = <<FALSE, Null>>
  /\ loop = [deps |-> <<FALSE, "med", Null>>, frameId |-> 0, lastTime |-> "none"]
  /\ effectsPending = FALSE
  /\ m = [NewInstance("none", NoFlags)
            EXCEPT !.mounted = TRUE, !.mapRef = 1, !.styleLoaded = TRUE]
  /\ maps = {1}
  /\ watches = {}
  /\ geolocation = TRUE
  /\ chart = ElevationChart(NullRoute, 0)
  /\ lastOp = Op("none", "")

\* the callback of effect 2 runs with a catalog and an active event
RenderGhost(evs, eventId) ==
  Set([Cur EXCEPT
         !.events = evs, !.activeEventId = eventId,
         !.m = GhostDraw(@, GhostFilter(
                 permanentRoutesGeoJson(evs),
                 activeEvent([events |-> evs,
                              activeEventId |-> eventId]).eventId))],
      Op("RenderGhost", eventId))

\* the callback of effect 3 runs with a catalog and an active event
RenderRefresh(evs, eventId) ==
  Set([Cur EXCEPT
         !.events = evs, !.activeEventId = eventId,
         !.m = refreshCallback(@, Registration("refresh",
                 [events |-> evs, activeEventId |-> eventId,
                  selectedRouteId |-> selectedRouteId]))],
      Op("RenderRefresh", eventId))

NextGroups ==
  \/ \E evs \in GroupCatalogs, eventId \in EventIds : RenderGhost(evs, eventId)
  \/ \E evs \in GroupCatalogs, eventId \in EventIds : RenderRefresh(evs, eventId)

SpecGroups == InitGroups /\ [][NextGroups]_vars

\* no event of evs other than the one with eventId has a LineString feature
NoGhostLines(evs, eventId) ==
  \A i \in 1..Len(evs) :
    \/ evs[i].eventId = eventId
    \/ \A j \in 1..Len(evs[i].routes) :
         \/ ~evs[i].routes[j].hasGeojson
         \/ \A k \in 1..Len(evs[i].routes[j].features) :
              evs[i].routes[j].features[k].type # "LineString"

\* no route of ev carries a feature
NoFeatures(ev) ==
  \A j \in 1..Len(ev.routes) :
    ~ev.routes[j].hasGeojson \/ Len(ev.routes[j].features) = 0

\* C29: when the feature collection computed for a layer group is empty (the
\* ghost set after excluding the active event, or the underlay of an event
\* whose routes carry no features), the layer and the source of the group
\* are absent after the reconciliation, whether or not they were present
\* before; and if they were absent before, the step removes nothing of the
\* group.
C29_EmptyGroupAbsent ==
  [][/\ (/\ lastOp'.op = "RenderGhost"
         /\ NoGhostLines(events', activeEvent(
              [events |-> events', activeEventId |-> activeEventId']).eventId))
          => /\ ~getSource(m', ID.permanentSrc)
             /\ ~getLayer(m', ID.permanentLayer)
             /\ (~getSource(m, ID.permanentSrc) /\ ~getLayer(m, ID.permanentLayer))
                  => /\ m'.flags.removed = {}
                     /\ m'.sources = m.sources
                     /\ m'.layers = m.layers
     /\ (/\ lastOp'.op = "RenderRefresh"
         /\ NoFeatures(activeEvent(
              [events |-> events', activeEventId |-> activeEventId'])))
          => /\ ~getSource(m', ID.baseSrc)
             /\ ~getLayer(m', ID.baseLayer)
             /\ (~getSource(m, ID.baseSrc) /\ ~getLayer(m, ID.baseLayer))
                  => m'.flags.removed \cap {ID.baseSrc, ID.baseLayer} = {}]_vars

\* the ghost layer was on the map and the ghost set became empty: removed
C29_Witness ==
  /\ After("RenderGhost")
  /\ Len(events) > 0
  /\ ID.permanentSrc \in m.flags.removed
  /\ ID.permanentLayer \in m.flags.removed
  /\ ~getSource(m, ID.permanentSrc)
  /\ ~getLayer(m, ID.permanentLayer)

\* C30, as claimed: the step that reconciles the map with a newly selected
\* route issues fitBounds exactly once, no step issues it more than once,
\* and the incidental updates (playback frames, position fixes and errors,
\* speed and play / pause changes, selecting the route already selected,
\* turning live GPS on) issue none.
C30_FitOncePerSelection ==
  /\ m.flags.fits <= 1
  /\ (/\ After("handleRouteSelect")
      /\ lastOp.arg # lastOp.route
      /\ m.styleLoaded
      /\ Len(m.playbackCoordsRef) > 0) => m.flags.fits = 1
  /\ (After("handleRouteSelect") /\ lastOp.arg = lastOp.route) => m.flags.fits = 0
  /\ (After("ToggleLiveGps") /\ isLiveGpsOn) => m.flags.fits = 0
  /\ lastOp.op \in {"tick", "PositionFix", "PositionError", "setSpeed",
                    "togglePlayback"} => m.flags.fits = 0

\* ---------------------------------------------------------------------
\* The progress increment of a frame as a function of dt, route and speed
\* ---------------------------------------------------------------------

\* a loop is running for any route of the catalog, at any speed, from any
\* progress
InitRate ==
  /\ events = LoadedEvents
  /\ \E r \in AllRoutes :
       /\ selectedRouteId = r.id
       /\ activeEventId = IF r \in {R31, R32} THEN "e3" ELSE "e2"
  /\ isLiveGpsOn = FALSE
  /\ isPlaybackOn = TRUE
  /\ playbackSpeed \in Speeds
  /\ playbackProgress \in 0..(ProgressOne - 1)
  /\ snapDeps = <<TRUE, activeEventId>>
  /\ loop = [deps |-> <<TRUE, playbackSpeed, selectedRouteId>>, frameId |-> 1,
             lastTime |-> "frame"]
  /\ effectsPending = FALSE
  /\ m = NewInstance(activeEventId, NoFlags)
  /\ maps = {}
  /\ watches = {}
  /\ geolocation = TRUE
  /\ chart = ElevationChart(RouteById(selectedRouteId), playbackProgress)
  /\ lastOp = Op("none", "")

\* a frame callback of the running loop fires dt grid points after the last
\* one; the step keeps dt in lastOp.arg
Frame(dt) ==
  /\ isPlaybackOn
  /\ loop.frameId # 0
  /\ Set(Advanced(Cur, dt, loop.deps), [Op("Frame", "") EXCEPT !.arg = dt])

SpecRate == InitRate /\ [][\E dt \in 1..MaxDt : Frame(dt)]_vars

\* the increment of progress for dt grid points on a route of d miles:
\* dt / (60 s * (d / 10) * multiplier), multiplier 2, 1, 1/4 for slow, med,
\* fast, distance 0 counted as 1; in progress units
RateIncrement(dt, d, speed) ==
  (dt * FrameGridSeconds * 10 * 4 * ProgressOne)
    \div (60 * (IF d = 0 THEN 1 ELSE d)
             * (IF speed = "slow" THEN 8 ELSE IF speed = "fast" THEN 1 ELSE 4))

\* C31: a frame advances the progress by dt / duration, duration = 60 s *
\* (distanceMi / 10) * speed multiplier, distance 0 counted as 1, and wraps
\* to 0 when the sum reaches 1; for the dt and route of the frame the
\* increment at slow is smaller than at med, which is smaller than at fast,
\* and for the speed of the frame it is smaller on a longer route.
C31_IncrementByDuration ==
  After("Frame") =>
    /\ \/ /\ isPlaybackOn
          /\ playbackProgress
               = lastOp.progress
                 + RateIncrement(lastOp.arg, RouteById(lastOp.route).distanceMi,
                                 playbackSpeed)
          /\ playbackProgress < ProgressOne
       \/ /\ ~isPlaybackOn
          /\ playbackProgress = 0
          /\ lastOp.progress
               + RateIncrement(lastOp.arg, RouteById(lastOp.route).distanceMi,
                               playbackSpeed) >= ProgressOne
    /\ delta(lastOp.arg, RouteById(lastOp.route), "slow")
         < delta(lastOp.arg, RouteById(lastOp.route), "med")
    /\ delta(lastOp.arg, RouteById(lastOp.route), "med")
         < delta(lastOp.arg, RouteById(lastOp.route), "fast")
    /\ \A r \in AllRoutes :
         routeDistance(r) > routeDistance(RouteById(lastOp.route))
           => delta(lastOp.arg, r, playbackSpeed)
                < delta(lastOp.arg, RouteById(lastOp.route), playbackSpeed)
    /\ RouteById(lastOp.route).distanceMi = 0
         => delta(lastOp.arg, RouteById(lastOp.route), playbackSpeed)
              = RateIncrement(lastOp.arg, 1, playbackSpeed)

\* a frame on the 20-mile route at slow speed moves the progress by a
\* quarter of what it moves at med speed on the 10-mile route
C31_Witness ==
  /\ After("Frame")
  /\ lastOp.route = "r32"
  /\ playbackSpeed = "slow"
  /\ isPlaybackOn
  /\ playbackProgress = lastOp.progress + 1

\* C32, as claimed: once the map is reconciled with a selected route of at
\* least 2 vertices, the marker source holds a point at the first vertex and
\* a point at the last vertex of the concatenation, in feature order, of the
\* line segments of the route; for a route of fewer than 2 vertices it holds
\* no point at a vertex of the route.
C32_StartFinishMarkers ==
  (/\ m.mounted /\ m.styleLoaded /\ ~effectsPending
   /\ selectedRoute(Cur) # NullRoute)
  => IF Len(RouteVertices(selectedRoute(Cur))) >= 2
       THEN /\ \E k \in 1..Len(m.data[ID.poiSrc]) :
                 m.data[ID.poiSrc][k].coordinates
                   = RouteVertices(selectedRoute(Cur))[1]
            /\ \E k \in 1..Len(m.data[ID.poiSrc]) :
                 m.data[ID.poiSrc][k].coordinates
                   = RouteVertices(selectedRoute(Cur))
                       [Len(RouteVertices(selectedRoute(Cur)))]
       ELSE \A k \in 1..Len(m.data[ID.poiSrc]) :
              \A i \in 1..Len(RouteVertices(selectedRoute(Cur))) :
                m.data[ID.poiSrc][k].coordinates
                  # RouteVertices(selectedRoute(Cur))[i]

\* ---------------------------------------------------------------------
\* thinCoordinates as a function of its arguments
\* ---------------------------------------------------------------------

\* longest coordinate list and largest step drawn
MaxThinLen == 9

MaxThinStep == 4

\* a list of n vertices, all different, or with the value of vertex dup
\* repeated at the end (a track that returns to a point it passed)
ThinList(n, dup) ==
  [i \in 1..n |-> IF i = n /\ dup # 0 THEN <<dup, 0>> ELSE <<i, 0>>]

\* the track of the only route of the catalog is any such list
InitThin ==
  /\ \E n \in 0..MaxThinLen :
       \E dup \in 0..(IF n > 1 THEN n - 1 ELSE 0) :
         events = << [eventId |-> "e3",
                      routes |-> << [R31 EXCEPT !.features =
                                       << LineString(ThinList(n, dup)) >>] >>] >>
  /\ activeEventId = "e3"
  /\ selectedRouteId = "r31"
  /\ isLiveGpsOn = FALSE
  /\ isPlaybackOn = FALSE
  /\ playbackSpeed = "med"
  /\ playbackProgress = 0
  /\ snapDeps = <<TRUE, "e3">>
  /\ loop = [deps |-> <<FALSE, "med", "r31">>, frameId |-> 0, lastTime |-> "none"]
  /\ effectsPending = FALSE
  /\ m = [NewInstance("e3", NoFlags)
            EXCEPT !.mounted = TRUE, !.mapRef = 1, !.styleLoaded = TRUE]
  /\ maps = {1}
  /\ watches = {}
  /\ geolocation = TRUE
  /\ chart = ElevationChart(NullRoute, 0)
  /\ lastOp = Op("none", "")

\* the track is thinned with a step and becomes the data of the ghost source;
\* the step is kept in lastOp.arg
Thin(step) ==
  /\ lastOp.op = "none"
  /\ Set([Cur EXCEPT !.m = setGeoJsonSource(@, ID.permanentSrc,
            << [eventId |-> "e3", routeId |-> "r31",
                coordinates |->
                  thinCoordinates(events[1].routes[1].features[1].coordinates,
                                  step)] >>)],
         [Op("Thin", "") EXCEPT !.arg = step])

SpecThin == InitThin /\ [][\E step \in 1..MaxThinStep : Thin(step)]_vars

\* the list given to thinCoordinates and the list it returned
ThinInput == events[1].routes[1].features[1].coordinates

ThinOutput == m.data[ID.permanentSrc][1].coordinates

\* out holds exactly the vertices of coords at indices 0, step, 2*step, ...
\* and the final vertex, in order, the final vertex once
KeepsEveryNthAndLast(coords, out, step) ==
  /\ Len(out) = Cardinality({i \in 1..Len(coords) :
                               (i - 1) % step = 0 \/ i = Len(coords)})
  /\ \A k \in 1..Len(out) :
       out[k] = coords[IF 1 + (k - 1) * step <= Len(coords)
                         THEN 1 + (k - 1) * step ELSE Len(coords)]

\* C33, as claimed: for every non-empty list the result holds exactly the
\* vertices at indices 0, step, 2*step, ... plus the final vertex.
C33_ThinKeepsEveryNth ==
  (After("Thin") /\ Len(ThinInput) > 0)
    => KeepsEveryNthAndLast(ThinInput, ThinOutput, lastOp.arg)

\* C33, amended: a list longer than step is thinned to exactly the vertices
\* at indices 0, step, 2*step, ... plus the final vertex, the final vertex
\* once; a list of at most step vertices is returned unchanged; in both cases
\* the first and the last vertex of a non-empty list are preserved.
C33_ThinLongListsOnly ==
  After("Thin") =>
    /\ Len(ThinInput) > lastOp.arg
         => KeepsEveryNthAndLast(ThinInput, ThinOutput, lastOp.arg)
    /\ Len(ThinInput) <= lastOp.arg => ThinOutput = ThinInput
    /\ Len(ThinInput) > 0
         => /\ ThinOutput[1] = ThinInput[1]
            /\ ThinOutput[Len(ThinOutput)] = ThinInput[Len(ThinInput)]

\* a track whose final vertex has the value of a vertex the loop kept, and is
\* not itself at a multiple of the step: it is added
C33_Witness ==
  /\ After("Thin")
  /\ lastOp.arg = 3
  /\ ThinInput = ThinList(9, 7)
  /\ ThinOutput = << <<1, 0>>, <<4, 0>>, <<7, 0>>, <<7, 0>> >>

\* C34: in every reachable state every layer on the map has its source on
\* the map, for the six overlay groups; and no step adds a layer before its
\* source or removes a source while a layer that uses it remains.
C34_LayerHasSource ==
  /\ \A i \in 1..Len(m.layers) : getSource(m, SourceOfLayer(m.layers[i]))
  /\ ~m.flags.orphan

\* live GPS is switched off on a map that shows the ghost, the underlay and
\* the selected route: the user-location pair goes, the others stay
C34_Witness ==
  /\ After("ToggleLiveGps")
  /\ ~isLiveGpsOn
  /\ {ID.gpsLayer, ID.gpsSrc} \subseteq m.flags.removed
  /\ getLayer(m, ID.permanentLayer)
  /\ getLayer(m, ID.baseLayer)
  /\ getLayer(m, ID.selectedLine)
  /\ getLayer(m, ID.playbackLayer)

\* C35: whenever the playback source holds a dot, the coordinate cache the
\* dot effect read is the flattened line coordinates of the route that is
\* selected now, after any route switches, event switches and deferred
\* style-ready callbacks; after a route switch the dot is at the first vertex
\* of the new route.
C35_DotFromSelectedRoute ==
  Len(m.data[ID.playbackSrc]) > 0
    => /\ m.playbackCoordsRef = RouteVertices(selectedRoute(Cur))
       /\ After("handleRouteSelect")
            => m.data[ID.playbackSrc][1] = RouteVertices(selectedRoute(Cur))[1]

\* playback ran on one route, another route is selected: the dot is at the
\* start of the new route
C35_Witness ==
  /\ After("handleRouteSelect")
  /\ lastOp.wasOn
  /\ lastOp.route = "r31"
  /\ selectedRoute(Cur).id = "r32"
  /\ m.playbackCoordsRef = << <<0, 0>>, <<4, 0>>, <<4, 4>>, <<8, 4>> >>
  /\ m.data[ID.playbackSrc] = << <<0, 0>> >>

\* C36: whenever isLiveGpsOn is true, geolocation is available and the
\* effects have run, exactly one watch is registered, it is the one the
\* instance holds, and once the style is loaded the user-location source and
\* layer are on the map; also after a route change and after the remount of
\* an event change.
C36_GpsSessionSurvives ==
  (isLiveGpsOn /\ geolocation /\ ~effectsPending)
    => /\ Cardinality(watches) = 1
       /\ \E w \in watches : w.id = m.gpsWatchIdRef /\ w.live
       /\ m.styleLoaded
            => getSource(m, ID.gpsSrc) /\ getLayer(m, ID.gpsLayer)

\* live GPS is on when another event is selected: the new instance holds
\* the one watch without a toggle
C36_Witness ==
  /\ After("handleEventSelect")
  /\ lastOp.event = "e3"
  /\ activeEventId = "e2"
  /\ m.key = "e2"
  /\ isLiveGpsOn
  /\ watches = {[id |-> m.gpsWatchIdRef, live |-> TRUE]}

\* ---------------------------------------------------------------------
\* The activeEvent and selectedRoute memos as functions of the App state
\* ---------------------------------------------------------------------

\* any non-empty catalog, any activeEventId and any selectedRouteId
InitSelect ==
  /\ events \in GroupCatalogs \ {<<>>}
  /\ activeEventId \in EventIds \cup {Null}
  /\ selectedRouteId \in {r.id : r \in AllRoutes} \cup {Null}
  /\ isLiveGpsOn = FALSE
  /\ isPlaybackOn = FALSE
  /\ playbackSpeed = "med"
  /\ playbackProgress = 0
  /\ snapDeps = <<FALSE, Null>>
  /\ loop = [deps |-> <<FALSE, "med", Null>>, frameId |-> 0, lastTime |-> "none"]
  /\ effectsPending = TRUE
  /\ m = NewInstance("none", NoFlags)
  /\ maps = {}
  /\ watches = {}
  /\ geolocation = TRUE
  /\ chart = ElevationChart(NullRoute, 0)
  /\ lastOp = [op |-> "none", arg |-> "", wasOn |-> FALSE, progress |-> 0,
               route |-> Null, event |-> Null]

\* App renders: the memos are computed, lastOp keeps the ids of what they
\* returned
RenderApp ==
  /\ effectsPending
  /\ Set([Cur EXCEPT !.effectsPending = FALSE], Op("RenderApp", ""))

SpecSelect == InitSelect /\ [][RenderApp]_vars

\* C37: with a non-empty catalog the selected route is a route of the
\* active event, or null when that event has no routes, whatever value
\* selectedRouteId holds; and the active event is an event of the catalog.
C37_SelectedRouteOfActiveEvent ==
  After("RenderApp") =>
    /\ \E i \in 1..Len(events) : events[i].eventId = lastOp.event
    /\ \A i \in 1..Len(events) :
         events[i].eventId = lastOp.event =>
           IF Len(events[i].routes) = 0 THEN lastOp.route = Null
           ELSE \E j \in 1..Len(events[i].routes) :
                  events[i].routes[j].id = lastOp.route

\* selectedRouteId names a route of another event: the first route of the
\* active event is selected
C37_Witness ==
  /\ After("RenderApp")
  /\ activeEventId = "e2"
  /\ selectedRouteId = "r31"
  /\ events = LoadedEvents
  /\ lastOp.event = "e2"
  /\ lastOp.route = "r21"

\* C38: a setSpeed that finds playback running leaves playbackProgress,
\* isPlaybackOn, the selected route and the active event as they were; after
\* it exactly one frame is pending, and it belongs to a loop whose closure
\* holds the new speed; when the speed differs from the old one that loop is
\* a new one, started after the old loop's frame was cancelled.
C38_SpeedChangeKeepsPlayback ==
  [][(lastOp'.op = "setSpeed" /\ isPlaybackOn) =>
       /\ playbackProgress' = playbackProgress
       /\ isPlaybackOn'
       /\ selectedRouteId' = selectedRouteId
       /\ activeEventId' = activeEventId
       /\ playbackSpeed' = lastOp'.arg
       /\ loop'.frameId = 1
       /\ loop'.deps = <<TRUE, playbackSpeed', selectedRouteId>>
       /\ playbackSpeed' # playbackSpeed =>
            loop'.lastTime = "performance.now"]_vars

C38_Witness ==
  /\ After("setSpeed")
  /\ lastOp.wasOn
  /\ lastOp.arg = "fast"
  /\ lastOp.progress > 0
  /\ playbackProgress = lastOp.progress
  /\ isPlaybackOn
  /\ loop.frameId = 1
  /\ loop.lastTime = "performance.now"
  /\ loop.deps[2] = "fast"

\* ---------------------------------------------------------------------
\* Playback under fair scheduling of frame callbacks
\* ---------------------------------------------------------------------

\* a frame callback that fires after a positive elapsed time
PositiveTick == \E dt \in 1..MaxDt : tick(dt)

\* the program with frame callbacks that measure a positive elapsed time
NextLive ==
  \/ LoadEvents
  \/ \E eventId \in EventIds : handleEventSelect(eventId)
  \/ \E r \in AllRoutes : handleRouteSelect(r.id)
  \/ togglePlayback
  \/ \E speed \in Speeds : setSpeed(speed)
  \/ ToggleLiveGps
  \/ PositiveTick
  \/ FlushPassiveEffects
  \/ StyleData
  \/ \E w \in watches, c \in FixPoints : PositionFix(w, c)
  \/ \E w \in watches : PositionError(w)

\* a frame is requested and no bound of the model stops its callback
FrameRequested == loop.frameId # 0

\* requestAnimationFrame runs a requested callback unless it is cancelled:
\* weak fairness of PositiveTick, WF_vars(PositiveTick), written out as
\* "infinitely often not enabled, or infinitely often taken", with
\* FrameRequested for ENABLED <<PositiveTick>>_vars (FrameRequestedRuns) and
\* the op of the step for <<PositiveTick>>_vars
FairFrames ==
  \/ []<>(~FrameRequested)
  \/ []<><<lastOp'.op = "tick">>_vars

SpecLive == Init /\ [][NextLive]_vars /\ FairFrames

\* FrameRequested is the enabling condition of PositiveTick: the callback of a
\* requested frame can run, with any positive elapsed time of the grid
FrameRequestedRuns ==
  FrameRequested =>
    \A dt \in 1..MaxDt :
      InBounds(CommitDeferred(
                 Advanced(FlushPending([Cur EXCEPT !.loop.lastTime = "frame",
                                                   !.loop.frameId = 1]),
                          dt, loop.deps)))

\* togglePlayback has just started playback on the selected route
PlaybackStarted ==
  After("togglePlayback") /\ ~lastOp.wasOn /\ isPlaybackOn

\* the last step paused playback or selected a route or an event
PlaybackInterrupted ==
  \/ After("togglePlayback") /\ lastOp.wasOn
  \/ After("handleRouteSelect")
  \/ After("handleEventSelect")

\* C39: once playback has been started on a selected route, of any distance
\* of the catalog and at any speed, a state with isPlaybackOn = FALSE and
\* playbackProgress = 0 is eventually reached, unless a pause, a route
\* selection or an event selection interrupts it first.
C39_PlaybackCompletes ==
  PlaybackStarted ~>
    ((~isPlaybackOn /\ playbackProgress = 0) \/ PlaybackInterrupted)

C39_Witness ==
  /\ After("tick")
  /\ lastOp.wasOn
  /\ lastOp.progress > 0
  /\ ~isPlaybackOn
  /\ playbackProgress = 0
  /\ RouteById(lastOp.route).distanceMi = 20
  /\ playbackSpeed = "slow"

====
